---- MODULE Spec2Model ----
(***************************************************************************)
(* Model of the circuit optimizer passes (CircuitOptimizer.cpp).  A        *)
(* circuit is the ordered sequence qc.ops of operation records; a lane DAG *)
(* is one sequence of slot indices into qc.ops per qubit.  Each pass is an *)
(* operator computed the way the code computes it, and an action that      *)
(* applies the pass to the current circuit.                                *)
(***************************************************************************)
EXTENDS Integers, Sequences, FiniteSets, TLC

VARIABLES ops,    \* qc.ops: the circuit's operation sequence
          input,  \* qc.ops as it was when the last pass was called
          pass,   \* name of the last pass that returned ("none" before any)
          ret,    \* value returned by the last isDynamicCircuit call
          runs,   \* number of passes called so far
          ub,     \* the last pass read or moved a lane cursor past its lane's end
          local,  \* local variables of a pass modelled step by step (else NoLocal)
          layout  \* qc.nqubits, qc.initialLayout and qc.outputPermutation

vars == <<ops, input, pass, ret, runs, ub, local, layout>>

\* no pass is running
NoLocal == [phase |-> "none"]

(***************************************************************************)
(* Bounds of the checked input families.                                   *)
(***************************************************************************)
NQ == 3          \* qubits of the circuit (initial layout 0..NQ-1)
MaxNodes == 4    \* operations (nested ones included) of a removeIdentities input
MaxRuns == 2     \* successive calls of removeIdentities
MaxCXLen == 4    \* operations of an input of cancelCNOTs
MaxSRLen == 3    \* operations of an input of swapReconstruction and cancelCNOTs
MaxSQLen == 4    \* operations of an input of singleQubitGateFusion
MaxDSLen == 2    \* operations of an input of decomposeSWAP
MaxDGLen == 4    \* operations of an input of removeDiagonalGatesBeforeMeasure
MaxDYLen == 3    \* operations of an input of isDynamicCircuit
MaxDWLen == 4    \* operations of an input of deferMeasurements with operations between Measure and control
MaxDSULen == 2    \* operations of a circuit the DSU is run on
MaxFMLen == 3    \* operations of an input of removeFinalMeasurements
MaxBPLen == 2    \* operations of an input of backpropagateOutputPermutation
MaxCBLen == 3    \* operations of an input of collectBlocks
MaxROLen == 3    \* operations of an input of reorderOperations
MaxERLen == 3    \* operations of an input of eliminateResets
MaxDMLen == 3    \* operations of an input of deferMeasurements

Qubits == 0 .. (NQ - 1)

\* a circuit of NQ qubits as constructed: both layouts are the identity
identityLayout ==
    [nqubits |-> NQ,
     initialLayout |-> [q \in Qubits |-> q],
     outputPermutation |-> [q \in Qubits |-> q]]

(***************************************************************************)
(* Operation records.                                                      *)
(***************************************************************************)
Control(q, t) == [qubit |-> q, type |-> t]

PosControl(q) == Control(q, "Pos")

NegControl(q) == Control(q, "Neg")

StandardOperation(type, controls, targets) ==
    [kind |-> "Standard", type |-> type, controls |-> controls,
     targets |-> targets, ops |-> <<>>, classics |-> <<>>,
     controlRegister |-> <<0, 0>>, expectedValue |-> 0]

CompoundOperation(children) ==
    [kind |-> "Compound", type |-> "Compound", controls |-> {},
     targets |-> <<>>, ops |-> children, classics |-> <<>>,
     controlRegister |-> <<0, 0>>, expectedValue |-> 0]

NonUnitaryOperation(type, targets, classics) ==
    [kind |-> "NonUnitary", type |-> type, controls |-> {},
     targets |-> targets, ops |-> <<>>, classics |-> classics,
     controlRegister |-> <<0, 0>>, expectedValue |-> 0]

ClassicControlledOperation(op, creg, expected) ==
    [kind |-> "ClassicControlled", type |-> "ClassicControlled",
     controls |-> op.controls, targets |-> op.targets, ops |-> <<op>>,
     classics |-> <<>>, controlRegister |-> creg, expectedValue |-> expected]

Gate(type, q) == StandardOperation(type, {}, <<q>>)

CNOT(c, t) == StandardOperation("X", {PosControl(c)}, <<t>>)

SWAPGate(a, b) == StandardOperation("SWAP", {}, <<a, b>>)

MeasureOp(q, c) == NonUnitaryOperation("Measure", <<q>>, <<c>>)

ResetOp(q) == NonUnitaryOperation("Reset", <<q>>, <<>>)

BarrierOp(q) == NonUnitaryOperation("Barrier", <<q>>, <<>>)

isStandardOperation(op) == op.kind = "Standard"

isCompoundOperation(op) == op.kind = "Compound"

isNonUnitaryOperation(op) == op.kind = "NonUnitary"

isClassicControlledOperation(op) == op.kind = "ClassicControlled"

Range(s) == {s[i] : i \in DOMAIN s}

\* setGate(type): retype in place
setGate(op, type) == [op EXCEPT !.type = type]

clearControls(op) == [op EXCEPT !.controls = {}]

(***************************************************************************)
(* removeIdentities                                                        *)
(***************************************************************************)
\* the inner loop over the children of one Compound: erase children typed I
eraseIdentityChildren(children) == SelectSeq(children, LAMBDA c : c.type # "I")

RECURSIVE removeIdentities(_)
removeIdentities(o) ==
    IF o = <<>> THEN <<>>
    ELSE LET op == Head(o)
             rest == removeIdentities(Tail(o))
         IN  IF op.type = "I" THEN rest
             ELSE IF isCompoundOperation(op)
                  THEN LET children == eraseIdentityChildren(op.ops)
                       IN  IF children = <<>> THEN rest
                           ELSE IF Len(children) = 1
                                THEN <<children[1]>> \o rest
                                ELSE <<[op EXCEPT !.ops = children]>> \o rest
                  ELSE <<op>> \o rest

(***************************************************************************)
(* Operation queries                                                       *)
(***************************************************************************)
controlQubits(op) == {c.qubit : c \in op.controls}

\* Operation::getUsedQubits: controls and targets, across nested structure
RECURSIVE getUsedQubits(_)
getUsedQubits(op) ==
    IF isCompoundOperation(op)
    THEN UNION {getUsedQubits(op.ops[i]) : i \in DOMAIN op.ops}
    ELSE controlQubits(op) \cup Range(op.targets)

\* NonUnitaryOperation::actsOn: Measure and Reset act on their qubits, every
\* other non-unitary operation (Barrier, Snapshot, ...) on none
actsOnNonUnitary(op, q) ==
    IF op.type = "Measure" THEN q \in Range(op.targets)
    ELSE IF op.type = "Reset" THEN q \in Range(op.targets)
    ELSE FALSE

RECURSIVE actsOn(_, _)
actsOn(op, q) ==
    IF isCompoundOperation(op)
    THEN \E i \in DOMAIN op.ops : actsOn(op.ops[i], q)
    ELSE IF isNonUnitaryOperation(op) THEN actsOnNonUnitary(op, q)
    ELSE q \in controlQubits(op) \cup Range(op.targets)

setTargets(op, t) == [op EXCEPT !.targets = t]

setControls(op, c) == [op EXCEPT !.controls = c]

Last(s) == s[Len(s)]

pop_back(s) == SubSeq(s, 1, Len(s) - 1)

(***************************************************************************)
(* Lane DAG: dag[q] is the sequence of slot indices of qc.ops whose        *)
(* operation was recorded on the lane of qubit q.                          *)
(***************************************************************************)
EmptyDAG == [q \in Qubits |-> <<>>]

pushOn(dag, qs, i) ==
    [q \in DOMAIN dag |-> IF q \in qs THEN Append(dag[q], i) ELSE dag[q]]

addToDag(dag, op, i) == pushOn(dag, controlQubits(op) \cup Range(op.targets), i)

addNonStandardOperationToDag(dag, op, i) ==
    IF isCompoundOperation(op) THEN pushOn(dag, getUsedQubits(op), i)
    ELSE IF isNonUnitaryOperation(op) THEN pushOn(dag, Range(op.targets), i)
    ELSE pushOn(dag, controlQubits(op.ops[1]) \cup Range(op.ops[1].targets), i)

RECURSIVE constructDAGFrom(_, _, _)
constructDAGFrom(o, i, dag) ==
    IF i > Len(o) THEN dag
    ELSE constructDAGFrom(o, i + 1,
            IF isStandardOperation(o[i]) THEN addToDag(dag, o[i], i)
            ELSE addNonStandardOperationToDag(dag, o[i], i))

constructDAG(o) == constructDAGFrom(o, 1, EmptyDAG)

\* a positive-control single-target X (the test the passes apply to a gate)
isCNOT(op) ==
    /\ op.type = "X"
    /\ Cardinality(op.controls) = 1
    /\ \A c \in op.controls : c.type = "Pos"

isSWAP(op) == op.type = "SWAP" /\ Cardinality(op.controls) = 0

firstControl(op) == (CHOOSE c \in op.controls : TRUE).qubit

\* (mutant of ascendingTargets: the target list is not put in order)
unorderedTargets(a, b) == <<a, b>>

\* the two-qubit target list of a reconstructed SWAP, lower qubit first
ascendingTargets(a, b) == IF a > b THEN <<b, a>> ELSE <<a, b>>

(***************************************************************************)
(* cancelCNOTs                                                             *)
(***************************************************************************)
\* (mutant of sameOperationOnBothLanes: only the lane of q0 is looked at)
anyOperationOnLanes(dag, q0, q1) == Last(dag[q0]) = Last(dag[q0])

\* the adjacency test: the same operation is last on the lanes of q0 and q1
sameOperationOnBothLanes(dag, q0, q1) == Last(dag[q0]) = Last(dag[q1])

\* (mutant of rewriteSWAPThenCNOT: the current CNOT keeps its direction)
rewriteSWAPThenCNOTKeepDirection(op0, it, q0, q1) ==
    <<setControls(setTargets(setGate(op0, "X"), <<q0>>), {PosControl(q1)}), it>>

\* SWAP op0 followed by the CNOT it (target q0, control q1): <<op0, it>> become
\* CNOT(q1 -> q0) and then CNOT(q0 -> q1)
rewriteSWAPThenCNOT(op0, it, q0, q1) ==
    <<setControls(setTargets(setGate(op0, "X"), <<q0>>), {PosControl(q1)}),
      setControls(setTargets(it, <<q1>>), {PosControl(q0)})>>

\* CNOT op0 (target prevQ0, control prevQ1) followed by the SWAP it: <<op0, it>>
\* become CNOT(prevQ0 -> prevQ1) and then CNOT(prevQ1 -> prevQ0)
rewriteCNOTThenSWAP(op0, it, prevQ0, prevQ1) ==
    <<setControls(setTargets(op0, <<prevQ1>>), {PosControl(prevQ0)}),
      setControls(setTargets(setGate(it, "X"), <<prevQ0>>), {PosControl(prevQ1)})>>

\* one iteration of the loop over qc.ops: st = [ops, dag], i the visited slot
cancelCNOTsVisit(st, i) ==
    LET it == st.ops[i]
        dag == st.dag
        added == [st EXCEPT !.dag = addToDag(dag, it, i)]
    IN
    IF ~isStandardOperation(it)
    THEN [st EXCEPT !.dag = addNonStandardOperationToDag(dag, it, i)]
    ELSE IF ~isCNOT(it) /\ ~isSWAP(it) THEN added
    ELSE
    LET q0 == it.targets[1]
        q1 == IF isSWAP(it) THEN it.targets[2] ELSE firstControl(it)
    IN
    IF dag[q0] = <<>> \/ dag[q1] = <<>> THEN added
    ELSE IF ~sameOperationOnBothLanes(dag, q0, q1) THEN added
    ELSE
    LET p == Last(dag[q0])
        op0 == st.ops[p]
        prevOpIsCNOT == isCNOT(op0)
        prevOpIsSWAP == isSWAP(op0)
    IN
    IF ~prevOpIsCNOT /\ ~prevOpIsSWAP THEN added
    ELSE
    LET prevQ0 == op0.targets[1]
        prevQ1 == IF prevOpIsSWAP THEN op0.targets[2] ELSE firstControl(op0)
        popped == [dag EXCEPT ![q0] = pop_back(dag[q0]), ![q1] = pop_back(dag[q1])]
        identity(o) == clearControls(setGate(o, "I"))
    IN
    IF isCNOT(it) /\ prevOpIsCNOT
    THEN IF q0 = prevQ0 /\ q1 = prevQ1
         THEN \* two identical CNOT gates cancel each other
              [ops |-> [st.ops EXCEPT ![p] = identity(op0), ![i] = identity(it)],
               dag |-> popped]
         ELSE \* alternating CNOTs: look for a third one
              IF Len(dag[q0]) < 2 \/ Len(dag[q1]) < 2 THEN added
              ELSE IF dag[q0][Len(dag[q0]) - 1] # dag[q1][Len(dag[q1]) - 1]
                   THEN added
              ELSE
              LET pp == dag[q0][Len(dag[q0]) - 1]
                  prevPrevOp0 == st.ops[pp]
              IN
              IF ~isCNOT(prevPrevOp0) THEN added
              ELSE IF q0 = prevPrevOp0.targets[1]
                      /\ q1 = firstControl(prevPrevOp0)
                   THEN \* SWAP gate identified
                        [ops |-> [st.ops EXCEPT
                                    ![pp] = setTargets(
                                              clearControls(setGate(prevPrevOp0, "SWAP")),
                                              ascendingTargets(prevQ0, prevQ1)),
                                    ![p] = identity(op0),
                                    ![i] = identity(it)],
                         dag |-> popped]
                   ELSE added
    ELSE IF isSWAP(it) /\ prevOpIsSWAP
    THEN IF {q0, q1} = {prevQ0, prevQ1}
         THEN [ops |-> [st.ops EXCEPT ![p] = identity(op0), ![i] = identity(it)],
               dag |-> popped]
         ELSE added
    ELSE IF isCNOT(it) /\ prevOpIsSWAP
    THEN \* SWAP followed by a CNOT is equivalent to two CNOTs
         LET new == rewriteSWAPThenCNOT(op0, it, q0, q1)
         IN  [ops |-> [st.ops EXCEPT ![p] = new[1], ![i] = new[2]],
              dag |-> addToDag(dag, new[2], i)]
    ELSE \* isSWAP(it) /\ prevOpIsCNOT: CNOT followed by a SWAP
         LET new == rewriteCNOTThenSWAP(op0, it, prevQ0, prevQ1)
         IN  [ops |-> [st.ops EXCEPT ![p] = new[1], ![i] = new[2]],
              dag |-> addToDag(dag, new[2], i)]

RECURSIVE cancelCNOTsLoop(_, _)
cancelCNOTsLoop(st, i) ==
    IF i > Len(st.ops) THEN st
    ELSE cancelCNOTsLoop(cancelCNOTsVisit(st, i), i + 1)

cancelCNOTs(o) ==
    removeIdentities(cancelCNOTsLoop([ops |-> o, dag |-> EmptyDAG], 1).ops)

(***************************************************************************)
(* swapReconstruction                                                      *)
(***************************************************************************)
keepDirection(it, control, target) == it

\* lines 362-363: the visited CNOT gets the old control as target and the old
\* target as control
reverseDirection(it, control, target) ==
    setControls(setTargets(it, <<control>>), {PosControl(target)})

swapReconstructionVisit(st, i) ==
    LET it == st.ops[i]
        dag == st.dag
        added == [st EXCEPT !.dag = addToDag(dag, it, i)]
    IN
    IF ~isStandardOperation(it)
    THEN [st EXCEPT !.dag = addNonStandardOperationToDag(dag, it, i)]
    ELSE IF ~isCNOT(it) THEN added
    ELSE
    LET control == firstControl(it)
        target == it.targets[1]
    IN
    IF dag[control] = <<>> \/ dag[target] = <<>> THEN added
    ELSE
    LET pC == Last(dag[control])
        pT == Last(dag[target])
        opC == st.ops[pC]
        opT == st.ops[pT]
    IN
    IF ~isCNOT(opC) \/ ~isCNOT(opT) THEN added
    ELSE IF firstControl(opC) # firstControl(opT)
            \/ opC.targets[1] # opT.targets[1]
         THEN added
    ELSE
    LET opCcontrol == firstControl(opC)
        opCtarget == opC.targets[1]
        popped == [dag EXCEPT ![control] = pop_back(dag[control]),
                              ![target] = pop_back(dag[target])]
    IN
    IF control = opCcontrol /\ target = opCtarget
    THEN \* elimination
         [ops |-> [st.ops EXCEPT ![pC] = clearControls(setGate(opC, "I")),
                                 ![i] = clearControls(setGate(it, "I"))],
          dag |-> popped]
    ELSE IF control = opCtarget /\ target = opCcontrol
    THEN \* replace with SWAP + CNOT
         LET newOpC == clearControls(setTargets(setGate(opC, "SWAP"),
                                                ascendingTargets(control, target)))
             newIt == reverseDirection(it, control, target)
         IN  [ops |-> [st.ops EXCEPT ![pC] = newOpC, ![i] = newIt],
              dag |-> addToDag(addToDag(popped, newOpC, pC), newIt, i)]
    ELSE added

RECURSIVE swapReconstructionLoop(_, _)
swapReconstructionLoop(st, i) ==
    IF i > Len(st.ops) THEN st
    ELSE swapReconstructionLoop(swapReconstructionVisit(st, i), i + 1)

swapReconstruction(o) ==
    removeIdentities(swapReconstructionLoop([ops |-> o, dag |-> EmptyDAG], 1).ops)

(***************************************************************************)
(* Inputs of the CNOT/SWAP passes: every circuit of at most MaxCXLen       *)
(* operations drawn from the positive-control CNOTs (both directions) and  *)
(* the uncontrolled SWAPs on neighbouring qubits q, q+1, the SWAP with     *)
(* descending target list <<1, 0>>, and the uncontrolled X on the highest  *)
(* qubit.                                                                  *)
(***************************************************************************)
SeqsUpTo(S, n) == UNION {[1 .. k -> S] : k \in 0 .. n}

CXGates ==
    UNION {{CNOT(q, q + 1), CNOT(q + 1, q), SWAPGate(q, q + 1)} :
              q \in 0 .. (NQ - 2)}
        \cup {SWAPGate(1, 0), Gate("X", NQ - 1)}

CXCircuits == SeqsUpTo(CXGates, MaxCXLen)

InitCX ==
    /\ ops \in CXCircuits
    /\ input = ops
    /\ pass = "none"
    /\ ret = FALSE
    /\ ub = FALSE
    /\ local = NoLocal
    /\ layout = identityLayout
    /\ runs = 0

CancelCNOTs ==
    /\ pass = "none"
    /\ ops' = cancelCNOTs(ops)
    /\ input' = ops
    /\ pass' = "cancelCNOTs"
    /\ runs' = runs + 1
    /\ UNCHANGED <<ret, ub, local, layout>>

SwapReconstruction ==
    /\ pass = "none"
    /\ ops' = swapReconstruction(ops)
    /\ input' = ops
    /\ pass' = "swapReconstruction"
    /\ runs' = runs + 1
    /\ UNCHANGED <<ret, ub, local, layout>>

NextCX == CancelCNOTs

SpecCX == InitCX /\ [][NextCX]_vars

\* the shorter circuits on which both CNOT passes are run
SRCircuits == SeqsUpTo(CXGates, MaxSRLen)

InitSR ==
    /\ ops \in SRCircuits
    /\ input = ops
    /\ pass = "none"
    /\ ret = FALSE
    /\ ub = FALSE
    /\ local = NoLocal
    /\ layout = identityLayout
    /\ runs = 0

NextSR == CancelCNOTs \/ SwapReconstruction

SpecSR == InitSR /\ [][NextSR]_vars

(***************************************************************************)
(* The action of a circuit of CNOT, SWAP and X gates on a computational-   *)
(* basis bit assignment b \in [Qubits -> {0, 1}].                          *)
(***************************************************************************)
BitAssignments == [Qubits -> {0, 1}]

applyGate(op, b) ==
    IF isCNOT(op)
    THEN [b EXCEPT ![op.targets[1]] = (b[op.targets[1]] + b[firstControl(op)]) % 2]
    ELSE IF isSWAP(op)
    THEN [b EXCEPT ![op.targets[1]] = b[op.targets[2]],
                   ![op.targets[2]] = b[op.targets[1]]]
    ELSE IF op.type = "X" /\ op.controls = {}
    THEN [b EXCEPT ![op.targets[1]] = 1 - b[op.targets[1]]]
    ELSE b

RECURSIVE applyCircuit(_, _)
applyCircuit(o, b) ==
    IF o = <<>> THEN b ELSE applyCircuit(Tail(o), applyGate(Head(o), b))

onlyCNOTsAndSWAPs(o) == \A i \in DOMAIN o : isCNOT(o[i]) \/ isSWAP(o[i])

\* C3: cancelCNOTs preserves the computation: the output circuit maps every
\* computational-basis bit assignment to the same bit assignment as the input
\* circuit (of positive-control CNOTs, uncontrolled SWAPs and X gates).
C3_CancelCNOTsPreserves ==
    (pass = "cancelCNOTs") =>
        \A b \in BitAssignments : applyCircuit(ops, b) = applyCircuit(input, b)

\* C3 witness: a circuit of CNOTs and SWAPs only on which several rewrites
\* followed one another: a SWAP and a CNOT became two CNOTs, which the next
\* CNOT completed to the three-CNOT pattern that collapsed to one SWAP.
C3_Witness ==
    /\ pass = "cancelCNOTs"
    /\ onlyCNOTsAndSWAPs(input)
    /\ Len(input) = 4
    /\ isSWAP(input[1]) /\ isCNOT(input[2]) /\ isCNOT(input[3])
    /\ Len(ops) = 2
    /\ isSWAP(ops[1])

touches(op, S) == getUsedQubits(op) \cap S # {}

\* the operations of o that act on a qubit of S, in order
laneView(o, S) == SelectSeq(o, LAMBDA op : touches(op, S))

\* o without the positions in D
RECURSIVE withoutFrom(_, _, _)
withoutFrom(o, D, m) ==
    IF m > Len(o) THEN <<>>
    ELSE (IF m \in D THEN <<>> ELSE <<o[m]>>) \o withoutFrom(o, D, m + 1)

without(o, D) == withoutFrom(o, D, 1)

\* an uncontrolled single-qubit gate on a qubit outside S
spectator(op, S) ==
    /\ isStandardOperation(op)
    /\ op.controls = {}
    /\ Len(op.targets) = 1
    /\ ~touches(op, S)

\* positions i < j < k hold CNOT(a,b), CNOT(b,a), CNOT(a,b)
alternatingTriple(o, i, j, k, a, b) ==
    /\ i < j /\ j < k /\ a # b
    /\ o[i] = CNOT(a, b) /\ o[j] = CNOT(b, a) /\ o[k] = CNOT(a, b)

passOf(name, o) ==
    IF name = "cancelCNOTs" THEN cancelCNOTs(o) ELSE swapReconstruction(o)

\* positions i < j hold the same positive-control CNOT
identicalPair(o, i, j) == i < j /\ isCNOT(o[i]) /\ o[j] = o[i]

\* no other operation before j acts on a qubit of the pair: when the second
\* CNOT is visited the first is the last operation on both of its lanes
adjacentPair(o, i, j) ==
    \A m \in DOMAIN o \ {i, j} : m < j => ~touches(o[m], getUsedQubits(o[i]))

\* exactly one other operation of the circuit acts on a qubit of the pair; it
\* stands between the two CNOTs and acts on one of the pair's two qubits only
separatedOnOneLane(o, i, j) ==
    LET S == getUsedQubits(o[i])
        T == {m \in DOMAIN o \ {i, j} : touches(o[m], S)}
    IN  /\ Cardinality(T) = 1
        /\ \A m \in T : i < m /\ m < j
                        /\ Cardinality(getUsedQubits(o[m]) \cap S) = 1

C5_WitnessSeparated ==
    /\ pass = "cancelCNOTs"
    /\ Len(input) = 3
    /\ identicalPair(input, 1, 3)
    /\ separatedOnOneLane(input, 1, 3)
    /\ isCNOT(input[2])
    /\ ops = input

INVERSE_MAP ==
    [I |-> "I", X |-> "X", Y |-> "Y", Z |-> "Z", H |-> "H", S |-> "Sdg",
     Sdg |-> "S", T |-> "Tdg", Tdg |-> "T", SX |-> "SXdg", SXdg |-> "SX",
     Barrier |-> "Barrier"]

\* the incoming gate is the tabulated inverse of the gate typed prevType
isInverseOf(itType, prevType) ==
    prevType \in DOMAIN INVERSE_MAP /\ itType = INVERSE_MAP[prevType]

\* (mutant of lastOfRun: the first gate of the run is compared)
firstOfRun(children) == children[1]

\* the gate of a Compound run an incoming gate is compared with
lastOfRun(children) == children[Len(children)]

\* the number of qubits of the DAG a Compound acts on
involvedQubits(compop, dag) ==
    Cardinality({q \in DOMAIN dag : actsOn(compop, q)})

singleQubitGateFusionVisit(st, i) ==
    LET it == st.ops[i]
        dag == st.dag
        added == [st EXCEPT !.dag = addToDag(dag, it, i)]
    IN
    IF ~isStandardOperation(it)
    THEN [st EXCEPT !.dag = addNonStandardOperationToDag(dag, it, i)]
    ELSE IF it.controls # {} \/ Len(it.targets) > 1 THEN added
    ELSE
    LET target == it.targets[1] IN
    IF dag[target] = <<>> THEN added
    ELSE
    LET p == Last(dag[target])
        op == st.ops[p]
        itGone == setGate(it, "I")
    IN
    IF ~isCompoundOperation(op) /\ (op.controls # {} \/ Len(op.targets) > 1)
    THEN added
    ELSE IF isCompoundOperation(op)
    THEN IF involvedQubits(op, dag) > 1 THEN added
         ELSE IF op.ops = <<>>
         THEN [st EXCEPT !.ops = [st.ops EXCEPT
                                    ![p] = [op EXCEPT !.ops = <<it>>],
                                    ![i] = itGone]]
         ELSE IF isInverseOf(it.type, lastOfRun(op.ops).type)
         THEN [st EXCEPT !.ops = [st.ops EXCEPT
                                    ![p] = [op EXCEPT !.ops = pop_back(op.ops)],
                                    ![i] = itGone]]
         ELSE [st EXCEPT !.ops = [st.ops EXCEPT
                                    ![p] = [op EXCEPT !.ops =
                                              Append(op.ops, Gate(it.type, it.targets[1]))],
                                    ![i] = itGone]]
    ELSE \* single qubit op
         IF isInverseOf(it.type, op.type)
         THEN [st EXCEPT !.ops = [st.ops EXCEPT ![p] = setGate(op, "I"),
                                                ![i] = itGone]]
         ELSE [ops |-> [st.ops EXCEPT
                          ![p] = CompoundOperation(<<Gate(op.type, op.targets[1]),
                                                     Gate(it.type, it.targets[1])>>),
                          ![i] = itGone],
               dag |-> [dag EXCEPT ![target] = Append(dag[target], p)]]

RECURSIVE singleQubitGateFusionLoop(_, _)
singleQubitGateFusionLoop(st, i) ==
    IF i > Len(st.ops) THEN st
    ELSE singleQubitGateFusionLoop(singleQubitGateFusionVisit(st, i), i + 1)

singleQubitGateFusion(o) ==
    removeIdentities(
        singleQubitGateFusionLoop([ops |-> o, dag |-> EmptyDAG], 1).ops)

(***************************************************************************)
(* Inputs of singleQubitGateFusion: every circuit of at most MaxSQLen      *)
(* uncontrolled single-target gates of the types SQTypes on qubits 0, 1.   *)
(***************************************************************************)
SQTypes == {"X", "H", "S", "Sdg", "RZ"}

SQGates == {Gate(t, q) : t \in SQTypes, q \in {0, 1}}

SQCircuits == SeqsUpTo(SQGates, MaxSQLen)

InitSQ ==
    /\ ops \in SQCircuits
    /\ input = ops
    /\ pass = "none"
    /\ ret = FALSE
    /\ ub = FALSE
    /\ local = NoLocal
    /\ layout = identityLayout
    /\ runs = 0

SingleQubitGateFusion ==
    /\ pass = "none"
    /\ ops' = singleQubitGateFusion(ops)
    /\ input' = ops
    /\ pass' = "singleQubitGateFusion"
    /\ runs' = runs + 1
    /\ UNCHANGED <<ret, ub, local, layout>>

NextSQ == SingleQubitGateFusion

SpecSQ == InitSQ /\ [][NextSQ]_vars

\* the inverse pairs the claim tabulates: X, Y, Z, H self-inverse; S/Sdg,
\* T/Tdg and SX/SXdg paired
tabulatedInverse(a, b) ==
    \/ a = b /\ a \in {"X", "Y", "Z", "H"}
    \/ {a, b} \in {{"S", "Sdg"}, {"T", "Tdg"}, {"SX", "SXdg"}}

TabulatedTypes == {"X", "Y", "Z", "H", "S", "Sdg", "T", "Tdg", "SX", "SXdg"}

\* a stack of gates after the gates of o on qubit q were pushed onto st in
\* order: a gate that is the tabulated inverse of the top pops it, any other
\* gate is pushed
RECURSIVE stackOf(_, _, _)
stackOf(o, q, st) ==
    IF o = <<>> THEN st
    ELSE LET g == Head(o) IN
         IF g.targets[1] # q THEN stackOf(Tail(o), q, st)
         ELSE IF st # <<>> /\ tabulatedInverse(g.type, Last(st).type)
              THEN stackOf(Tail(o), q, pop_back(st))
              ELSE stackOf(Tail(o), q, Append(st, g))

\* what a stack stands for in the circuit: nothing, its one gate, or one
\* Compound holding its gates in order
runOf(st) ==
    IF st = <<>> THEN <<>>
    ELSE IF Len(st) = 1 THEN st ELSE <<CompoundOperation(st)>>

\* the qubits of o in the order of their first gate
RECURSIVE firstUse(_, _)
firstUse(o, seen) ==
    IF o = <<>> THEN <<>>
    ELSE LET q == Head(o).targets[1] IN
         IF q \in seen THEN firstUse(Tail(o), seen)
         ELSE <<q>> \o firstUse(Tail(o), seen \cup {q})

RECURSIVE runsOf(_, _)
runsOf(o, qs) ==
    IF qs = <<>> THEN <<>>
    ELSE runOf(stackOf(o, Head(qs), <<>>)) \o runsOf(o, Tail(qs))

\* C6: singleQubitGateFusion treats the uncontrolled single-target gates of a
\* qubit as a stack: an incoming gate that is the tabulated inverse of the
\* last gate of the run removes it and is dropped, any other gate is appended
\* after the last; the surviving gates keep their order (one gate stays a
\* gate, several form one Compound at the first gate's position).
C6_FusionIsAStack ==
    (pass = "singleQubitGateFusion") =>
        /\ ops = runsOf(input, firstUse(input, {}))
        /\ \A a, b \in TabulatedTypes \cup SQTypes :
              isInverseOf(a, b) <=> tabulatedInverse(a, b)
        /\ (input = <<Gate("S", 0), Gate("Sdg", 0)>> => ops = <<>>)
        /\ (input = <<Gate("H", 0), Gate("X", 0)>>
              => ops = <<CompoundOperation(<<Gate("H", 0), Gate("X", 0)>>)>>)

\* C6 witness: on one qubit a gate was not cancelled against an equal earlier
\* gate of the run that is not its last, and a later inverse pair was.
C6_Witness ==
    /\ pass = "singleQubitGateFusion"
    /\ input = <<Gate("X", 0), Gate("H", 0), Gate("X", 0), Gate("X", 0)>>
    /\ ops = <<CompoundOperation(<<Gate("X", 0), Gate("H", 0)>>)>>

(***************************************************************************)
(* decomposeSWAP                                                           *)
(***************************************************************************)
\* (mutant of swapDecomposition: each CNOT points the other way)
swapDecompositionReversed(t, isDirectedArchitecture) ==
    IF isDirectedArchitecture
    THEN <<CNOT(t[2], t[1]), Gate("H", t[2]), Gate("H", t[1]),
           CNOT(t[2], t[1]), Gate("H", t[2]), Gate("H", t[1]),
           CNOT(t[2], t[1])>>
    ELSE <<CNOT(t[2], t[1]), CNOT(t[1], t[2]), CNOT(t[2], t[1])>>

\* the operations inserted for a SWAP with the targets t, in circuit order
swapDecomposition(t, isDirectedArchitecture) ==
    IF isDirectedArchitecture
    THEN <<CNOT(t[1], t[2]), Gate("H", t[2]), Gate("H", t[1]),
           CNOT(t[1], t[2]), Gate("H", t[2]), Gate("H", t[1]),
           CNOT(t[1], t[2])>>
    ELSE <<CNOT(t[1], t[2]), CNOT(t[2], t[1]), CNOT(t[1], t[2])>>

\* the test that selects an operation for decomposition
isDecomposedSWAP(op) == isStandardOperation(op) /\ op.type = "SWAP"

\* the loop over a Compound's own operations
RECURSIVE decomposeSWAPChildren(_, _)
decomposeSWAPChildren(children, isDirectedArchitecture) ==
    IF children = <<>> THEN <<>>
    ELSE LET cit == Head(children)
             rest == decomposeSWAPChildren(Tail(children), isDirectedArchitecture)
         IN IF isDecomposedSWAP(cit)
            THEN swapDecomposition(cit.targets, isDirectedArchitecture) \o rest
            ELSE <<cit>> \o rest

RECURSIVE decomposeSWAP(_, _)
decomposeSWAP(o, isDirectedArchitecture) ==
    IF o = <<>> THEN <<>>
    ELSE LET it == Head(o)
             rest == decomposeSWAP(Tail(o), isDirectedArchitecture)
         IN IF isStandardOperation(it)
            THEN IF it.type = "SWAP"
                 THEN swapDecomposition(it.targets, isDirectedArchitecture) \o rest
                 ELSE <<it>> \o rest
            ELSE IF isCompoundOperation(it)
            THEN <<[it EXCEPT !.ops =
                      decomposeSWAPChildren(it.ops, isDirectedArchitecture)]>> \o rest
            ELSE <<it>> \o rest

(***************************************************************************)
(* Inputs of decomposeSWAP: every circuit of at most MaxDSLen operations,  *)
(* each a leaf of DSLeaves, a Compound of one leaf or of two leaves of     *)
(* DSPairLeaves, or a Compound holding a Compound that holds a SWAP.       *)
(***************************************************************************)
DSLeaves ==
    {SWAPGate(0, 1), SWAPGate(2, 1),
     StandardOperation("SWAP", {PosControl(2)}, <<0, 1>>),
     Gate("X", 0), MeasureOp(0, 0)}

DSPairLeaves ==
    {SWAPGate(0, 1), StandardOperation("SWAP", {PosControl(2)}, <<0, 1>>),
     Gate("X", 0)}

DSCompounds ==
    {CompoundOperation(c) : c \in [1 .. 1 -> DSLeaves] \cup [1 .. 2 -> DSPairLeaves]}
        \cup {CompoundOperation(<<CompoundOperation(<<SWAPGate(0, 1)>>)>>)}

DSCircuits == SeqsUpTo(DSLeaves \cup DSCompounds, MaxDSLen)

InitDS ==
    /\ ops \in DSCircuits
    /\ input = ops
    /\ pass = "none"
    /\ ret = FALSE
    /\ ub = FALSE
    /\ local = NoLocal
    /\ layout = identityLayout
    /\ runs = 0

DecomposeSWAP ==
    /\ pass = "none"
    /\ \E isDirectedArchitecture \in BOOLEAN :
          /\ ops' = decomposeSWAP(ops, isDirectedArchitecture)
          /\ pass' = IF isDirectedArchitecture THEN "decomposeSWAPDirected"
                     ELSE "decomposeSWAP"
    /\ input' = ops
    /\ runs' = runs + 1
    /\ UNCHANGED <<ret, ub, local, layout>>

NextDS == DecomposeSWAP

SpecDS == InitDS /\ [][NextDS]_vars

isUncontrolledSWAP(op) ==
    isStandardOperation(op) /\ op.type = "SWAP" /\ op.controls = {}

threeCNOTs(a, b) == <<CNOT(a, b), CNOT(b, a), CNOT(a, b)>>

isSWAPTyped(op) == isStandardOperation(op) /\ op.type = "SWAP"

\* out is o with every uncontrolled SWAP(a,b) replaced at its position by
\* exactly CNOT(a,b); CNOT(b,a); CNOT(a,b), and every operation that is not a
\* SWAP kept in place (at top level a Compound is kept with its own
\* operations rewritten alike); what stands in place of a controlled SWAP is
\* left open, except that it holds no SWAP
RECURSIVE decomposedAsClaimed(_, _, _)
decomposedAsClaimed(o, out, top) ==
    IF o = <<>> THEN out = <<>>
    ELSE
    LET op == Head(o) IN
    IF isUncontrolledSWAP(op)
    THEN /\ Len(out) >= 3
         /\ SubSeq(out, 1, 3) = threeCNOTs(op.targets[1], op.targets[2])
         /\ decomposedAsClaimed(Tail(o), SubSeq(out, 4, Len(out)), top)
    ELSE IF isSWAPTyped(op)
    THEN \E k \in 0 .. Len(out) :
            /\ \A m \in 1 .. k : ~isSWAPTyped(out[m])
            /\ decomposedAsClaimed(Tail(o), SubSeq(out, k + 1, Len(out)), top)
    ELSE /\ out # <<>>
         /\ IF top /\ isCompoundOperation(op)
            THEN /\ isCompoundOperation(Head(out))
                 /\ decomposedAsClaimed(op.ops, Head(out).ops, FALSE)
            ELSE Head(out) = op
         /\ decomposedAsClaimed(Tail(o), Tail(out), top)

\* no SWAP at top level or as a direct child of a Compound
noSWAPRemains(o) ==
    \A i \in DOMAIN o :
        /\ ~isSWAPTyped(o[i])
        /\ isCompoundOperation(o[i]) =>
              \A k \in DOMAIN o[i].ops : ~isSWAPTyped(o[i].ops[k])

exchanged(b, q0, q1) == [b EXCEPT ![q0] = b[q1], ![q1] = b[q0]]

PastEndOutcomes == {"equal", "differs", "crash"}

DIAGONAL_GATES == {"I", "Z", "S", "Sdg", "T", "Tdg", "P", "RZ", "RZZ"}

opAt(st, ref) ==
    IF ref[2] = 0 THEN st.ops[ref[1]] ELSE st.ops[ref[1]].ops[ref[2]]

setGateAt(st, ref, type) ==
    IF ref[2] = 0
    THEN [st EXCEPT !.ops[ref[1]] = setGate(@, type)]
    ELSE [st EXCEPT !.ops[ref[1]].ops[ref[2]] = setGate(@, type)]

atRend(st, q) == st.cur[q] = 0

\* *dagIterators.at(q): the slot the cursor of q points to (0: none, the
\* cursor is not inside its lane)
slotAt(st, q) == IF st.cur[q] >= 1 THEN st.dag[q][st.cur[q]] ELSE 0

\* ++dagIterators.at(q) for every q of qs
advance(st, qs) ==
    [st EXCEPT !.cur = [q \in DOMAIN @ |-> IF q \in qs THEN @[q] - 1 ELSE @[q]],
               !.ub = @ \/ \E q \in qs : st.cur[q] <= 0]

toRend(st, q) == [st EXCEPT !.cur[q] = 0]

\* *dagIterators.at(q) != *it, `it` being the cursor of idx
cursorsDiffer(st, q, idx) ==
    IF st.cur[q] >= 1 /\ st.cur[idx] >= 1
    THEN slotAt(st, q) # slotAt(st, idx)
    ELSE st.pastEnd # "equal"

\* that comparison reads through a cursor that is not inside its lane
readsPastEnd(st, q, idx) == st.cur[q] <= 0 \/ st.cur[idx] <= 0

markRead(st, q, idx) == [st EXCEPT !.ub = @ \/ readsPastEnd(st, q, idx)]

\* the controls of an operation in the order the code visits them
RECURSIVE controlsInOrder(_)
controlsInOrder(cs) ==
    IF cs = {} THEN <<>>
    ELSE LET c == CHOOSE x \in cs : \A y \in cs : x.qubit <= y.qubit
         IN <<c>> \o controlsInOrder(cs \ {c})

\* the access (*it)->get() through a cursor that is not inside its lane
crash(st) == [st EXCEPT !.ub = TRUE, !.crashed = TRUE]

\* removeDiagonalGatesBeforeMeasureRecursive and removeDiagonalGate, which
\* call each other, as one operator; call names the part entered, x and y are
\* its arguments, the value is [st, ok]:
\*   "recursive"  removeDiagonalGatesBeforeMeasureRecursive, x = until (0: none)
\*   "walk"       its while loop on the lane idx, x = until
\*   "children"   the reverse loop over the children y, y-1, ..., 1 of the
\*                Compound at slot x
\*   "gate"       removeDiagonalGate of the operation x = <<slot, k>>
\*   "controls"   its loop over the controls x still to visit
\*   "targets"    its loop over the targets x still to visit, y = the
\*                onlyDiagonalGates found so far
RECURSIVE removeDiagonalGates(_, _, _, _, _)
removeDiagonalGates(call, st, idx, x, y) ==
    IF call = "controls" THEN
        IF x = <<>> THEN [st |-> st, ok |-> TRUE]
        ELSE
        LET controlQubit == Head(x).qubit IN
        IF controlQubit = idx
        THEN removeDiagonalGates("controls", st, idx, Tail(x), 0)
        ELSE IF Head(x).type = "Neg"
        THEN [st |-> toRend(st, controlQubit), ok |-> FALSE]
        ELSE IF atRend(st, controlQubit) THEN [st |-> st, ok |-> FALSE]
        ELSE IF st.cur[idx] <= 0 THEN [st |-> crash(st), ok |-> FALSE]
        ELSE
        LET st1 == removeDiagonalGates("recursive", st, controlQubit,
                                       slotAt(st, idx), 0).st
        IN
        IF st1.crashed THEN [st |-> st1, ok |-> FALSE]
        ELSE IF readsPastEnd(st1, controlQubit, idx) /\ st1.pastEnd = "crash"
        THEN [st |-> crash(st1), ok |-> FALSE]
        ELSE IF cursorsDiffer(st1, controlQubit, idx)
        THEN [st |-> markRead(st1, controlQubit, idx), ok |-> FALSE]
        ELSE removeDiagonalGates("controls", markRead(st1, controlQubit, idx),
                                 idx, Tail(x), 0)
    ELSE IF call = "targets" THEN
        \* entered whatever the loop over the controls found
        IF x = <<>> \/ st.crashed THEN [st |-> st, ok |-> y]
        ELSE
        LET target == Head(x) IN
        IF target = idx THEN removeDiagonalGates("targets", st, idx, Tail(x), y)
        ELSE IF atRend(st, target) THEN [st |-> st, ok |-> FALSE]
        ELSE IF st.cur[idx] <= 0 THEN [st |-> crash(st), ok |-> FALSE]
        ELSE
        LET st1 == removeDiagonalGates("recursive", st, target,
                                       slotAt(st, idx), 0).st
        IN
        IF st1.crashed THEN [st |-> st1, ok |-> FALSE]
        ELSE IF readsPastEnd(st1, target, idx) /\ st1.pastEnd = "crash"
        THEN [st |-> crash(st1), ok |-> FALSE]
        ELSE IF cursorsDiffer(st1, target, idx)
        THEN [st |-> markRead(st1, target, idx), ok |-> FALSE]
        ELSE removeDiagonalGates("targets", markRead(st1, target, idx),
                                 idx, Tail(x), y)
    ELSE IF call = "gate" THEN
        LET op == opAt(st, x) IN
        IF op.type \notin DIAGONAL_GATES
        THEN [st |-> toRend(st, idx), ok |-> FALSE]
        ELSE IF op.controls # {}
        THEN LET r1 == removeDiagonalGates("controls", st, idx,
                                           controlsInOrder(op.controls), 0)
                 r2 == removeDiagonalGates("targets", r1.st, idx, op.targets, r1.ok)
             IN IF r2.st.crashed THEN [st |-> r2.st, ok |-> FALSE]
                ELSE IF ~r2.ok THEN [st |-> toRend(r2.st, idx), ok |-> FALSE]
                ELSE [st |-> setGateAt(r2.st, x, "I"), ok |-> TRUE]
        ELSE [st |-> setGateAt(st, x, "I"), ok |-> TRUE]
    ELSE IF call = "children" THEN
        IF y = 0 THEN [st |-> st, ok |-> TRUE]
        ELSE LET r == removeDiagonalGates("gate", st, idx, <<x, y>>, 0) IN
             IF ~r.ok THEN r
             ELSE removeDiagonalGates("children", r.st, idx, x, y - 1)
    ELSE IF call = "walk" THEN
        IF st.crashed \/ atRend(st, idx) THEN [st |-> st, ok |-> TRUE]
        ELSE IF st.cur[idx] < 0 THEN [st |-> crash(st), ok |-> TRUE]
        ELSE IF x # 0 /\ slotAt(st, idx) = x THEN [st |-> st, ok |-> TRUE]
        ELSE
        LET slot == slotAt(st, idx)
            op == st.ops[slot]
        IN
        IF isStandardOperation(op)
        THEN LET r == removeDiagonalGates("gate", st, idx, <<slot, 0>>, 0) IN
             removeDiagonalGates("walk",
                IF r.ok
                THEN advance(r.st, controlQubits(op) \cup Range(op.targets))
                ELSE r.st, idx, x, 0)
        ELSE IF isCompoundOperation(op)
        THEN LET r == removeDiagonalGates("children", st, idx, slot, Len(op.ops)) IN
             removeDiagonalGates("walk",
                IF r.ok
                THEN advance(r.st, {q \in Qubits : actsOn(r.st.ops[slot], q)})
                ELSE r.st, idx, x, 0)
        ELSE IF isClassicControlledOperation(op)
        THEN LET cop == op.ops[1]
                 r == removeDiagonalGates("gate", st, idx, <<slot, 1>>, 0)
             IN removeDiagonalGates("walk",
                   IF r.ok
                   THEN advance(r.st, controlQubits(cop) \cup Range(cop.targets))
                   ELSE r.st, idx, x, 0)
        ELSE removeDiagonalGates("walk", toRend(st, idx), idx, x, 0)
    ELSE \* "recursive"
        IF st.crashed THEN [st |-> st, ok |-> TRUE]
        ELSE IF atRend(st, idx)
        THEN IF idx < NQ - 1
             THEN removeDiagonalGates("recursive", st, idx + 1, 0, 0)
             ELSE [st |-> st, ok |-> TRUE]
        ELSE IF x # 0 /\ st.cur[idx] >= 1 /\ slotAt(st, idx) = x
        THEN [st |-> st, ok |-> TRUE]
        ELSE
        LET st1 == removeDiagonalGates("walk", st, idx, x, 0).st IN
        IF ~st1.crashed /\ atRend(st1, idx) /\ idx < NQ - 1
        THEN removeDiagonalGates("recursive", st1, idx + 1, 0, 0)
        ELSE [st |-> st1, ok |-> TRUE]

removeDiagonalGate(st, idx, ref) == removeDiagonalGates("gate", st, idx, ref, 0)

removeDiagonalGatesBeforeMeasureRecursive(st, idx, until) ==
    removeDiagonalGates("recursive", st, idx, until, 0).st

\* the cursors as the pass initialises them: rend on a lane that does not end
\* in a Measure, else the operation before that Measure
initialCursors(o, dag) ==
    [q \in Qubits |->
        IF dag[q] = <<>> \/ o[Last(dag[q])].type # "Measure" THEN 0
        ELSE Len(dag[q]) - 1]

\* the circuit with the removed operations retyped to I
diagonalGatesMarked(o, pastEnd) ==
    LET dag == constructDAG(o) IN
    removeDiagonalGatesBeforeMeasureRecursive(
        [ops |-> o, dag |-> dag, cur |-> initialCursors(o, dag),
         pastEnd |-> pastEnd, ub |-> FALSE, crashed |-> FALSE], 0, 0)

removeDiagonalGatesBeforeMeasure(o, pastEnd) ==
    LET st == diagonalGatesMarked(o, pastEnd) IN
    [ops |-> IF st.crashed THEN st.ops ELSE removeIdentities(st.ops),
     ub |-> st.ub, marked |-> st.ops]

(***************************************************************************)
(* Inputs of removeDiagonalGatesBeforeMeasure: every circuit of at most    *)
(* MaxDGLen operations of DGGates.                                         *)
(***************************************************************************)
DGGates ==
    {Gate("Z", 0), Gate("Z", 1), Gate("T", 0), Gate("H", 0), Gate("H", 1),
     MeasureOp(0, 0), MeasureOp(1, 1), ResetOp(0),
     StandardOperation("Z", {PosControl(0)}, <<1>>)}

DGCircuits == SeqsUpTo(DGGates, MaxDGLen)

InitDG ==
    /\ ops \in DGCircuits
    /\ input = ops
    /\ pass = "none"
    /\ ret = FALSE
    /\ ub = FALSE
    /\ local = NoLocal
    /\ layout = identityLayout
    /\ runs = 0

RemoveDiagonalGatesBeforeMeasure ==
    /\ pass = "none"
    /\ \E pastEnd \in PastEndOutcomes :
          LET r == removeDiagonalGatesBeforeMeasure(ops, pastEnd) IN
          /\ ops' = r.ops
          /\ ub' = r.ub
          /\ local' = [phase |-> "returned", marked |-> r.marked]
    /\ input' = ops
    /\ pass' = "removeDiagonalGatesBeforeMeasure"
    /\ runs' = runs + 1
    /\ UNCHANGED <<ret, layout>>

NextDG == RemoveDiagonalGatesBeforeMeasure

SpecDG == InitDG /\ [][NextDG]_vars

\* the lane of q ends in a Measure
endsInMeasure(o, q) ==
    LET lane == constructDAG(o)[q] IN
    lane # <<>> /\ o[Last(lane)].type = "Measure"

isUncontrolledDiagonal(op) ==
    /\ isStandardOperation(op)
    /\ op.controls = {}
    /\ Len(op.targets) = 1
    /\ op.type \in DIAGONAL_GATES

isNonDiagonalOrNonUnitary(op) ==
    isNonUnitaryOperation(op) \/ op.type \notin DIAGONAL_GATES

\* the slots of the maximal run of uncontrolled single-qubit diagonal gates
\* directly preceding the final Measure of q
runBeforeMeasure(o, q) ==
    LET lane == constructDAG(o)[q] IN
    {lane[p] : p \in {p \in 1 .. (Len(lane) - 1) :
        \A r \in p .. (Len(lane) - 1) : isUncontrolledDiagonal(o[lane[r]])}}

\* the slots of the lane of q at or before the first non-diagonal or
\* non-unitary operation met walking backward from the final Measure
behindBlocker(o, q) ==
    LET lane == constructDAG(o)[q] IN
    {lane[p] : p \in {p \in 1 .. (Len(lane) - 1) :
        \E r \in p .. (Len(lane) - 1) : isNonDiagonalOrNonUnitary(o[lane[r]])}}

finalMeasure(o, q) == Last(constructDAG(o)[q])

measuredQubits(o) == {q \in Qubits : endsInMeasure(o, q)}

\* C8: on every qubit whose lane ends in a Measure the pass removes every
\* uncontrolled single-qubit diagonal gate of the maximal run directly before
\* that Measure, removes nothing on the lane at or before the first
\* non-diagonal or non-unitary operation met walking backward, and keeps the
\* Measure; [Z(0), Measure(0->0)] becomes [Measure(0->0)] and
\* [H(0), Measure(0->0)] is unchanged.
C8_DiagonalRunRemoved ==
    (pass = "removeDiagonalGatesBeforeMeasure") =>
        /\ \E D \in SUBSET (DOMAIN input) :
              /\ ops = without(input, D)
              /\ \A q \in measuredQubits(input) :
                    /\ runBeforeMeasure(input, q) \subseteq D
                    /\ behindBlocker(input, q) \cap D = {}
                    /\ finalMeasure(input, q) \notin D
        /\ (input = <<Gate("Z", 0), MeasureOp(0, 0)>> => ops = <<MeasureOp(0, 0)>>)
        /\ (input = <<Gate("H", 0), MeasureOp(0, 0)>> => ops = input)

(***************************************************************************)
(* isDynamicCircuit.  Its lanes record the operations themselves (top-level *)
(* ones and children of Compounds alike).                                  *)
(***************************************************************************)
\* (mutant of childMakesDynamic: a classically controlled child is passed over)
childMakesDynamicResetOnly(op) == op.type = "Reset"

\* the child of a Compound at which the scan returns true
childMakesDynamic(op) == op.type = "Reset" \/ isClassicControlledOperation(op)

\* the scan's state sc: dag, hasMeasurements and returned (true was returned)
RECURSIVE isDynamicScanChildren(_, _)
isDynamicScanChildren(sc, children) ==
    IF children = <<>> \/ sc.returned THEN sc
    ELSE
    LET op == Head(children) IN
    IF childMakesDynamic(op) THEN [sc EXCEPT !.returned = TRUE]
    ELSE isDynamicScanChildren(
            [sc EXCEPT
               !.hasMeasurements = @ \/ op.type = "Measure",
               !.dag = IF isNonUnitaryOperation(op)
                       THEN pushOn(@, Range(op.targets), op)
                       ELSE addToDag(@, op, op)],
            Tail(children))

RECURSIVE isDynamicScan(_, _)
isDynamicScan(sc, o) ==
    IF o = <<>> \/ sc.returned THEN sc
    ELSE
    LET it == Head(o) IN
    IF isStandardOperation(it)
    THEN isDynamicScan([sc EXCEPT !.dag = addToDag(@, it, it)], Tail(o))
    ELSE IF isNonUnitaryOperation(it)
    THEN IF it.type = "Reset" THEN [sc EXCEPT !.returned = TRUE]
         ELSE isDynamicScan(
                 [sc EXCEPT !.hasMeasurements = @ \/ it.type = "Measure",
                            !.dag = pushOn(@, Range(it.targets), it)],
                 Tail(o))
    ELSE IF isClassicControlledOperation(it)
    THEN [sc EXCEPT !.returned = TRUE]
    ELSE isDynamicScan(isDynamicScanChildren(sc, it.ops), Tail(o))

\* the reverse walk of one lane: position p down to 1, `operation` so far
RECURSIVE operationAfterMeasurement(_, _, _)
operationAfterMeasurement(qubitDAG, p, operation) ==
    IF p = 0 THEN FALSE
    ELSE LET op == qubitDAG[p] IN
         IF op.type = "Measure" THEN operation
         ELSE operationAfterMeasurement(qubitDAG, p - 1,
                 operation \/ isStandardOperation(op)
                           \/ isClassicControlledOperation(op)
                           \/ isCompoundOperation(op) \/ op.type = "Reset")

isDynamicCircuit(o) ==
    LET sc == isDynamicScan([dag |-> EmptyDAG, hasMeasurements |-> FALSE,
                             returned |-> FALSE], o)
    IN
    IF sc.returned THEN TRUE
    ELSE IF ~sc.hasMeasurements THEN FALSE
    ELSE \E q \in Qubits :
            operationAfterMeasurement(sc.dag[q], Len(sc.dag[q]), FALSE)

(***************************************************************************)
(* Inputs of isDynamicCircuit: every circuit of at most MaxDYLen           *)
(* operations of DYGates.                                                  *)
(***************************************************************************)
DYLeaves ==
    {Gate("X", 0), Gate("X", 1), MeasureOp(0, 0), MeasureOp(1, 1), ResetOp(0),
     BarrierOp(0), ClassicControlledOperation(Gate("X", 0), <<0, 1>>, 1)}

DYCompounds ==
    {CompoundOperation(<<c>>) :
        c \in {Gate("X", 0), MeasureOp(0, 0), ResetOp(0),
               ClassicControlledOperation(Gate("X", 0), <<0, 1>>, 1),
               CompoundOperation(<<ResetOp(0)>>)}}
      \cup {CompoundOperation(<<Gate("X", 0), MeasureOp(0, 0)>>),
            CompoundOperation(<<MeasureOp(0, 0), Gate("X", 0)>>)}

DYGates == DYLeaves \cup DYCompounds

DYCircuits == SeqsUpTo(DYGates, MaxDYLen)

InitDY ==
    /\ ops \in DYCircuits
    /\ input = ops
    /\ pass = "none"
    /\ ret = FALSE
    /\ ub = FALSE
    /\ local = NoLocal
    /\ layout = identityLayout
    /\ runs = 0

IsDynamicCircuit ==
    /\ pass = "none"
    /\ ret' = isDynamicCircuit(ops)
    /\ input' = ops
    /\ pass' = "isDynamicCircuit"
    /\ runs' = runs + 1
    /\ UNCHANGED <<ops, ub, local, layout>>

NextDY == IsDynamicCircuit

SpecDY == InitDY /\ [][NextDY]_vars

\* o holds an operation of the type at top level or as a child of a Compound
containsType(o, type) ==
    \E i \in DOMAIN o :
        \/ o[i].type = type
        \/ isCompoundOperation(o[i]) /\ \E k \in DOMAIN o[i].ops :
              o[i].ops[k].type = type

operationAfterMeasure(o, q) ==
    \E i, j \in DOMAIN o :
        /\ i < j
        /\ o[i].type = "Measure" /\ q \in Range(o[i].targets)
        /\ isStandardOperation(o[j]) \/ isCompoundOperation(o[j])
        /\ actsOn(o[j], q)

\* C10: isDynamicCircuit returns true for every circuit in which a standard or
\* compound operation acts on a qubit q after a Measure of q, whatever follows
\* that operation on q.
C10_OperationAfterMeasureIsDynamic ==
    (pass = "isDynamicCircuit") =>
        \A q \in Qubits : operationAfterMeasure(input, q) => ret = TRUE

(***************************************************************************)
(* deferMeasurements.  The pass is modelled one loop iteration per step:   *)
(* local holds its iterators (as 1-based indices into qc.ops, Len + 1      *)
(* being qc.end()), the measurement whose removal started the running      *)
(* scan, and qubitsToAddMeasurements (a set of <<qubit, bit>> pairs, one   *)
(* per qubit).  phase is "outer" at the head of the outer loop, "scan" at  *)
(* the head of the forward scan, "returned" after the pass returned and    *)
(* "raised" after it threw.                                                *)
(***************************************************************************)
RECURSIVE isUnitary(_)
isUnitary(op) ==
    IF isCompoundOperation(op)
    THEN \A i \in DOMAIN op.ops : isUnitary(op.ops[i])
    ELSE isStandardOperation(op)

erase(o, i) == SubSeq(o, 1, i - 1) \o SubSeq(o, i + 1, Len(o))

insert(o, i, op) == SubSeq(o, 1, i - 1) \o <<op>> \o SubSeq(o, i, Len(o))

emptyMap == [q \in {} |-> q]

\* the Measures after which nothing acts on their qubit
isLastOperationOnQubit(o, k) ==
    \A m \in (k + 1) .. Len(o) : \A q \in Range(o[k].targets) : ~actsOn(o[m], q)

\* initializeIOMapping on a circuit whose initial layout is set: an empty
\* output permutation is rebuilt from the final Measures (qubit to bit), or
\* from the initial layout when there is none
initializeIOMapping(lay, o) ==
    LET final == {k \in DOMAIN o :
                     /\ isNonUnitaryOperation(o[k]) /\ o[k].type = "Measure"
                     /\ isLastOperationOnQubit(o, k)}
        measured == {o[k].targets[1] : k \in final}
    IN  IF lay.outputPermutation # emptyMap THEN lay
        ELSE IF final = {}
        THEN [lay EXCEPT !.outputPermutation = lay.initialLayout]
        ELSE [lay EXCEPT !.outputPermutation =
                 [q \in measured |->
                     o[CHOOSE k \in final : o[k].targets[1] = q /\
                          \A m \in final : o[m].targets[1] = q => m <= k].classics[1]]]

deferStart ==
    [phase |-> "outer", it |-> 1, opIt |-> 1, currentInsertionPoint |-> 1,
     targets |-> <<>>, classics |-> <<>>, qubitsToAddMeasurements |-> {}]

\* the orders in which the entries of the unordered map can be iterated
iterationOrders(m) ==
    {s \in [1 .. Cardinality(m) -> m] : \A i, j \in DOMAIN s : i # j => s[i] # s[j]}

RECURSIVE measureAll(_, _)
measureAll(o, order) ==
    IF order = <<>> THEN o
    ELSE measureAll(Append(o, MeasureOp(order[1][1], order[1][2])), Tail(order))

\* lines 1178-1185: the code after the outer loop
deferFinish(st, order) ==
    [ops |-> IF st.local.qubitsToAddMeasurements = {} THEN st.ops
             ELSE measureAll(st.ops, order),
     local |-> [st.local EXCEPT !.phase = "returned"]]

deferRaise(st) == [st EXCEPT !.local.phase = "raised"]

\* one iteration of the outer loop (the scan it may start excluded)
deferOuter(st, order) ==
    LET l == st.local
        o == st.ops
    IN  IF l.it > Len(o) THEN deferFinish(st, order)
        ELSE IF isNonUnitaryOperation(o[l.it]) /\ o[l.it].type = "Measure"
        THEN IF Len(o[l.it].targets) # 1 /\ Len(o[l.it].classics) # 1
             THEN deferRaise(st)
             ELSE IF l.it = Len(o) THEN deferFinish(st, order)
             ELSE [ops |-> erase(o, l.it),
                   local |-> [l EXCEPT
                       !.phase = "scan",
                       !.opIt = l.it,
                       !.currentInsertionPoint = l.it,
                       !.targets = o[l.it].targets,
                       !.classics = o[l.it].classics,
                       !.qubitsToAddMeasurements =
                           {p \in @ : p[1] # o[l.it].targets[1]}
                           \cup {<<o[l.it].targets[1], o[l.it].classics[1]>>}]]
        ELSE [st EXCEPT !.local.it = @ + 1]

\* the scan is left (loop condition false or break); line 1176 follows
deferScanEnd(st) == [st EXCEPT !.local.phase = "outer", !.local.it = @ + 1]

addedControl(q, expectedValue) ==
    IF expectedValue = 1 THEN PosControl(q) ELSE NegControl(q)

\* lines 1099-1165: the operation at opIt is keyed on the measured bit
deferRewrite(st) ==
    LET l == st.local
        o == st.ops
        classicOp == o[l.opIt]
        standardOp == classicOp.ops[1]
        measurementQubit == l.targets[1]
    IN  IF ~isStandardOperation(standardOp) THEN deferRaise(st)
        ELSE IF measurementQubit \in Range(standardOp.targets) THEN deferRaise(st)
        ELSE
        LET newOp == StandardOperation(standardOp.type,
                         standardOp.controls \cup
                             {addedControl(measurementQubit, classicOp.expectedValue)},
                         standardOp.targets)
            erased == erase(o, l.opIt)
            it1 == IF l.it >= l.opIt THEN l.opIt ELSE l.it
            ip1 == IF l.currentInsertionPoint >= l.opIt THEN l.opIt
                   ELSE l.currentInsertionPoint
            it2 == IF it1 >= ip1 THEN ip1 ELSE it1
        IN  [ops |-> insert(erased, ip1, newOp),
             local |-> [l EXCEPT !.it = it2,
                                 !.currentInsertionPoint = ip1 + 1,
                                 !.opIt = ip1 + 1]]

multiBitRaises(classicOp) ==
    classicOp.controlRegister[2] # 1 /\ classicOp.expectedValue <= 1

\* one iteration of the forward scan, lines 1051-1174
deferScan(st) ==
    LET l == st.local
        o == st.ops
        measurementQubit == l.targets[1]
        measurementBit == l.classics[1]
        skip == [st EXCEPT
                    !.local.currentInsertionPoint =
                        IF actsOn(o[l.opIt], measurementQubit) THEN @ ELSE @ + 1,
                    !.local.opIt = @ + 1]
    IN  IF l.opIt > Len(o) THEN deferScanEnd(st)
        ELSE IF isUnitary(o[l.opIt]) THEN skip
        ELSE IF o[l.opIt].type = "Reset" THEN deferRaise(st)
        ELSE IF isNonUnitaryOperation(o[l.opIt]) /\ o[l.opIt].type = "Measure"
        THEN IF l.targets = o[l.opIt].targets /\ l.classics = o[l.opIt].classics
             THEN deferScanEnd(st)
             ELSE [st EXCEPT !.local.currentInsertionPoint = @ + 1,
                             !.local.opIt = @ + 1]
        ELSE IF isClassicControlledOperation(o[l.opIt])
        THEN IF multiBitRaises(o[l.opIt]) THEN deferRaise(st)
             ELSE IF o[l.opIt].controlRegister[1] = measurementBit
             THEN deferRewrite(st)
             ELSE skip
        ELSE st   \* no branch of the loop body applies: nothing changes

(***************************************************************************)
(* Inputs of deferMeasurements: every circuit of at most MaxDMLen of the   *)
(* operations below.                                                       *)
(***************************************************************************)
DMGates ==
    {Gate("H", 0), Gate("X", 1), MeasureOp(0, 0), MeasureOp(1, 1),
     ClassicControlledOperation(Gate("X", 1), <<0, 1>>, 1),
     ClassicControlledOperation(Gate("X", 1), <<0, 1>>, 0),
     ClassicControlledOperation(Gate("X", 0), <<1, 1>>, 1),
     ClassicControlledOperation(Gate("X", 1), <<0, 2>>, 1),
     ClassicControlledOperation(Gate("X", 1), <<0, 2>>, 2),
     BarrierOp(0), ResetOp(1)}

DMCircuits == SeqsUpTo(DMGates, MaxDMLen)

InitDM ==
    /\ ops \in DMCircuits
    /\ input = ops
    /\ pass = "none"
    /\ ret = FALSE
    /\ ub = FALSE
    /\ runs = 0
    /\ local = deferStart
    /\ layout = identityLayout

DeferOuter ==
    /\ local.phase = "outer"
    /\ \E order \in iterationOrders(local.qubitsToAddMeasurements) :
          LET st == deferOuter([ops |-> ops, local |-> local], order)
          IN  /\ ops' = st.ops
              /\ local' = st.local
              /\ pass' = IF st.local.phase = "returned" THEN "deferMeasurements"
                         ELSE pass
              /\ runs' = IF st.local.phase = "returned" THEN runs + 1 ELSE runs
              /\ layout' =
                     IF st.local.phase = "returned"
                        /\ local.qubitsToAddMeasurements # {}
                     THEN initializeIOMapping(
                              [layout EXCEPT !.outputPermutation = emptyMap], st.ops)
                     ELSE layout
    /\ UNCHANGED <<input, ret, ub>>

DeferScan ==
    /\ local.phase = "scan"
    /\ LET st == deferScan([ops |-> ops, local |-> local])
       IN  /\ ops' = st.ops
           /\ local' = st.local
    /\ UNCHANGED <<input, pass, ret, runs, ub, layout>>

NextDM == DeferOuter \/ DeferScan

SpecDM == InitDM /\ [][NextDM]_vars

\* the pass runs on: an iteration that can change the state is taken
SpecDMLive == SpecDM /\ WF_vars(NextDM)

(***************************************************************************)
(* Claims about deferMeasurements.                                         *)
(***************************************************************************)
returned == local.phase = "returned"

raised == local.phase = "raised"

occurrences(o, op) == Cardinality({i \in DOMAIN o : o[i] = op})

\* o[j] is a ClassicControlledOperation keyed on the single bit b that an
\* earlier Measure of q wrote
keyedOn(o, j, q, b) ==
    /\ isClassicControlledOperation(o[j])
    /\ o[j].controlRegister = <<b, 1>>
    /\ \E i \in 1 .. (j - 1) : o[i] = MeasureOp(q, b)

isKeyed(o, j) == \E q \in Qubits, b \in Qubits : keyedOn(o, j, q, b)

quantumControlled(classicOp, q) ==
    StandardOperation(classicOp.ops[1].type,
        classicOp.ops[1].controls \cup
            {IF classicOp.expectedValue = 1 THEN PosControl(q) ELSE NegControl(q)},
        classicOp.ops[1].targets)

\* the Measures that close the circuit
trailingMeasures(o) ==
    {k \in DOMAIN o : \A m \in k .. Len(o) :
        isNonUnitaryOperation(o[m]) /\ o[m].type = "Measure"}

deferExample ==
    <<Gate("H", 0), MeasureOp(0, 0),
      ClassicControlledOperation(Gate("X", 1), <<0, 1>>, 1)>>

deferExampleResult == <<Gate("H", 0), CNOT(0, 1), MeasureOp(0, 0)>>

\* C11: when deferMeasurements has returned, every ClassicControlledOperation
\* of the input that is keyed on the bit written by an earlier (so non-final)
\* single-qubit Measure of q has been replaced by the Standard operation with
\* the same type, targets and controls plus a control on q (positive when the
\* expected value is 1, negative otherwise), no keyed classic-controlled
\* record is left, and exactly one Measure of q into that bit is among the
\* Measures that close the circuit; [H(0), Measure(0->0),
\* ClassicControlled(X(1), bit0==1)] becomes [H(0), CNOT(0,1), Measure(0->0)].
C11_ClassicControlsDeferred ==
    (pass = "deferMeasurements") =>
        /\ \A j \in DOMAIN input : \A q \in Qubits, b \in Qubits :
              keyedOn(input, j, q, b) =>
                  /\ quantumControlled(input[j], q) \in Range(ops)
                  /\ occurrences(ops, input[j]) =
                         Cardinality({i \in DOMAIN input :
                             input[i] = input[j] /\ ~isKeyed(input, i)})
                  /\ Cardinality({k \in trailingMeasures(ops) :
                         ops[k] = MeasureOp(q, b)}) = 1
        /\ input = deferExample => ops = deferExampleResult

C11_Witness ==
    pass = "deferMeasurements" /\ input = deferExample /\ ops = deferExampleResult

\* C12: every call of deferMeasurements on a finite circuit terminates: it
\* eventually returns or raises a fatal condition, whatever kind of operation
\* the forward scan after a removed Measure meets.
C12_DeferMeasurementsTerminates == <>(returned \/ raised)

\* the forward scan stands on a ClassicControlledOperation whose control
\* register spans more than one bit
scanMeetsMultiBit ==
    /\ local.phase = "scan"
    /\ local.opIt <= Len(ops)
    /\ isClassicControlledOperation(ops[local.opIt])
    /\ ops[local.opIt].controlRegister[2] # 1

\* C13: whenever the forward scan after a removed Measure meets a
\* ClassicControlledOperation whose control register spans more than one bit,
\* whatever its expected value, the iteration raises a fatal condition and
\* leaves the circuit as it is (the operation is not rewritten).
C13_MultiBitRegisterRaises ==
    [][scanMeetsMultiBit => (local'.phase = "raised" /\ ops' = ops)]_vars

(***************************************************************************)
(* eliminateResets.  replacementMap is a function from the qubits that     *)
(* were reset to the qubit id that now stands for them.                    *)
(***************************************************************************)
put(f, k, v) == [q \in DOMAIN f \cup {k} |-> IF q = k THEN v ELSE f[q]]

\* qc.addQubit(logical, physical, output)
addQubit(lay, logical, physical, output) ==
    [nqubits |-> lay.nqubits + 1,
     initialLayout |-> put(lay.initialLayout, physical, logical),
     outputPermutation |-> put(lay.outputPermutation, physical, output)]

changeTargets(targets, replacementMap) ==
    [i \in DOMAIN targets |->
        IF targets[i] \in DOMAIN replacementMap THEN replacementMap[targets[i]]
        ELSE targets[i]]

\* the replacement map is walked in ascending key order
RECURSIVE changeControlsFrom(_, _, _)
changeControlsFrom(controls, replacementMap, keys) ==
    IF keys = {} THEN controls
    ELSE LET from == CHOOSE k \in keys : \A m \in keys : k <= m
             found == {c \in controls : c.qubit = from}
             next == IF found = {} THEN controls
                     ELSE LET c == CHOOSE c \in found : TRUE
                          IN  (controls \ {c}) \cup
                                  {Control(replacementMap[from], c.type)}
         IN  changeControlsFrom(next, replacementMap, keys \ {from})

changeControls(controls, replacementMap) ==
    IF controls = {} \/ DOMAIN replacementMap = {} THEN controls
    ELSE changeControlsFrom(controls, replacementMap, DOMAIN replacementMap)

\* lines 977-985 and 991-999: what is renamed in an operation that stays
changeOperation(op, replacementMap) ==
    IF isStandardOperation(op)
    THEN [op EXCEPT !.targets = changeTargets(@, replacementMap),
                    !.controls = changeControls(@, replacementMap)]
    ELSE IF isClassicControlledOperation(op)
    THEN [op EXCEPT !.targets = changeTargets(@, replacementMap),
                    !.controls = changeControls(@, replacementMap),
                    !.ops = <<[@[1] EXCEPT
                        !.targets = changeTargets(@, replacementMap),
                        !.controls = changeControls(@, replacementMap)]>>]
    ELSE IF isNonUnitaryOperation(op)
    THEN [op EXCEPT !.targets = changeTargets(@, replacementMap)]
    ELSE op

\* lines 947-956 and 964-973: one new qubit per target of the Reset
RECURSIVE replaceTargets(_, _)
replaceTargets(st, targets) ==
    IF targets = <<>> THEN st
    ELSE LET indexAddQubit == st.layout.nqubits
         IN  replaceTargets(
                 [st EXCEPT
                     !.layout = addQubit(@, indexAddQubit, indexAddQubit,
                                         indexAddQubit),
                     !.replacementMap = put(@, targets[1], indexAddQubit)],
                 Tail(targets))

\* lines 961-988: the children of a Compound; st.children is the body
RECURSIVE eliminateResetsCompound(_, _)
eliminateResetsCompound(st, compOpIt) ==
    IF compOpIt > Len(st.children) THEN st
    ELSE IF st.children[compOpIt].type = "Reset"
    THEN LET r == replaceTargets([layout |-> st.layout,
                                  replacementMap |-> st.replacementMap],
                                 st.children[compOpIt].targets)
         IN  eliminateResetsCompound(
                 [children |-> erase(st.children, compOpIt),
                  layout |-> r.layout, replacementMap |-> r.replacementMap],
                 compOpIt)
    ELSE eliminateResetsCompound(
             [st EXCEPT !.children[compOpIt] =
                            changeOperation(@, st.replacementMap)],
             compOpIt + 1)

\* line 958: operations are renamed, and Compounds entered, only once a
\* Reset was replaced
compoundEntered(replacementMap) == DOMAIN replacementMap # {}

RECURSIVE eliminateResetsLoop(_, _)
eliminateResetsLoop(st, it) ==
    IF it > Len(st.ops) THEN st
    ELSE IF st.ops[it].type = "Reset"
    THEN LET r == replaceTargets([layout |-> st.layout,
                                  replacementMap |-> st.replacementMap],
                                 st.ops[it].targets)
         IN  eliminateResetsLoop(
                 [ops |-> erase(st.ops, it),
                  layout |-> r.layout, replacementMap |-> r.replacementMap], it)
    ELSE IF compoundEntered(st.replacementMap)
    THEN IF isCompoundOperation(st.ops[it])
         THEN LET c == eliminateResetsCompound(
                           [children |-> st.ops[it].ops, layout |-> st.layout,
                            replacementMap |-> st.replacementMap], 1)
              IN  eliminateResetsLoop(
                      [ops |-> [st.ops EXCEPT ![it].ops = c.children],
                       layout |-> c.layout, replacementMap |-> c.replacementMap],
                      it + 1)
         ELSE eliminateResetsLoop(
                  [st EXCEPT !.ops[it] = changeOperation(@, st.replacementMap)],
                  it + 1)
    ELSE eliminateResetsLoop(st, it + 1)

eliminateResets(o, lay) ==
    eliminateResetsLoop([ops |-> o, layout |-> lay, replacementMap |-> emptyMap], 1)

(***************************************************************************)
(* Inputs of eliminateResets: every circuit of at most MaxERLen of the     *)
(* operations below.                                                       *)
(***************************************************************************)
ERGates ==
    {Gate("H", 0),
     StandardOperation("X", {NegControl(0)}, <<1>>),
     MeasureOp(0, 0), ResetOp(0),
     NonUnitaryOperation("Reset", <<0, 1>>, <<>>),
     ClassicControlledOperation(Gate("X", 0), <<0, 1>>, 1),
     CompoundOperation(<<ResetOp(0), Gate("H", 0)>>),
     CompoundOperation(<<CNOT(1, 0), ResetOp(1)>>)}

ERCircuits == SeqsUpTo(ERGates, MaxERLen)

InitER ==
    /\ ops \in ERCircuits
    /\ input = ops
    /\ pass = "none"
    /\ ret = FALSE
    /\ ub = FALSE
    /\ runs = 0
    /\ local = NoLocal
    /\ layout = identityLayout

EliminateResets ==
    /\ pass = "none"
    /\ LET st == eliminateResets(ops, layout)
       IN  /\ ops' = st.ops
           /\ layout' = st.layout
    /\ input' = ops
    /\ pass' = "eliminateResets"
    /\ runs' = runs + 1
    /\ UNCHANGED <<ret, ub, local>>

NextER == EliminateResets

SpecER == InitER /\ [][NextER]_vars

(***************************************************************************)
(* Claims about eliminateResets.                                           *)
(***************************************************************************)
RECURSIVE resetTargets(_)
resetTargets(o) ==
    IF o = <<>> THEN 0
    ELSE (IF o[1].type = "Reset" THEN Len(o[1].targets)
          ELSE IF isCompoundOperation(o[1]) THEN resetTargets(o[1].ops)
          ELSE 0) + resetTargets(Tail(o))

\* C14: after eliminateResets has returned the circuit holds no Reset, at top
\* level or as the child of a Compound; the qubit count has grown by the
\* number of targets of the Resets of the input, and every added qubit id is
\* mapped to itself in the initial layout and in the output permutation.
C14_NoResetRemains ==
    (pass = "eliminateResets") =>
        /\ ~containsType(ops, "Reset")
        /\ layout.nqubits = NQ + resetTargets(input)
        /\ \A q \in NQ .. (layout.nqubits - 1) :
              /\ q \in DOMAIN layout.initialLayout
              /\ layout.initialLayout[q] = q
              /\ q \in DOMAIN layout.outputPermutation
              /\ layout.outputPermutation[q] = q

(***************************************************************************)
(* reorderOperations.  An operation is named by its slot in qc.ops; the    *)
(* lane cursors dagIterators are 1-based positions in the lanes (Len + 1   *)
(* being end()).  moved holds the slots whose unique_ptr was moved to the  *)
(* new vector and is null since; crashed records a call through such a     *)
(* null pointer.                                                           *)
(***************************************************************************)
laneAtEnd(dag, its, q) == its[q] > Len(dag[q])

\* lines 1324-1341: all qubits the operation acts on are at this operation
executable(o, dag, its, q) ==
    LET slot == dag[q][its[q]]
    IN  \A qb \in DOMAIN dag :
            (qb # q /\ actsOn(o[slot], qb)) =>
                (~laneAtEnd(dag, its, qb) /\ dag[qb][its[qb]] = slot)

emplace_front(newOps, op) == <<op>> \o newOps

\* line 1349: the executable operation is moved to the end of the new vector
emplace_back(newOps, op) == Append(newOps, op)

\* lines 1301-1357: one sweep over the qubits, from msq down to q = 0
RECURSIVE reorderSweep(_, _, _, _)
reorderSweep(o, dag, st, q) ==
    IF q < 0 \/ st.crashed THEN st
    ELSE IF laneAtEnd(dag, st.dagIterators, q)
    THEN reorderSweep(o, dag, st, q - 1)
    ELSE LET slot == dag[q][st.dagIterators[q]]
             visited == [st EXCEPT !.done = FALSE]
         IN  IF slot \in st.moved THEN [visited EXCEPT !.crashed = TRUE]
             ELSE IF ~executable(o, dag, st.dagIterators, q)
             THEN reorderSweep(o, dag, visited, q - 1)
             ELSE reorderSweep(o, dag,
                      [visited EXCEPT
                          !.ops = emplace_back(@, o[slot]),
                          !.moved = @ \cup {slot},
                          !.dagIterators =
                              [i \in DOMAIN dag |->
                                  IF i = q \/ actsOn(o[slot], i) THEN @[i] + 1
                                  ELSE @[i]]],
                      q - 1)

\* lines 1297-1358: sweeps until one finds every lane at its end
RECURSIVE reorderLoop(_, _, _)
reorderLoop(o, dag, st) ==
    LET swept == reorderSweep(o, dag, [st EXCEPT !.done = TRUE], NQ - 1)
    IN  IF swept.done \/ swept.crashed THEN swept
        ELSE IF swept.dagIterators = st.dagIterators
        THEN [swept EXCEPT !.crashed = TRUE]   \* not reached: a sweep that is
                                               \* not done moves a cursor
        ELSE reorderLoop(o, dag, swept)

\* a pass that returns the operations in the order it was given them
operationsAsGiven(o) ==
    [ops |-> o, moved |-> {}, done |-> TRUE, crashed |-> FALSE,
     dagIterators |-> [q \in Qubits |-> 1]]

\* the new operation vector, and whether the call crashed instead
reorderOperations(o) ==
    LET dag == constructDAG(o)
    IN  reorderLoop(o, dag,
            [ops |-> <<>>, moved |-> {}, done |-> FALSE, crashed |-> FALSE,
             dagIterators |-> [q \in DOMAIN dag |-> 1]])

(***************************************************************************)
(* Inputs of reorderOperations: every circuit of at most MaxROLen of the   *)
(* operations below.                                                       *)
(***************************************************************************)
ROGates ==
    {Gate("H", 0), Gate("X", 1), Gate("T", 2), CNOT(0, 1), CNOT(2, 1),
     SWAPGate(0, 2), MeasureOp(1, 1),
     CompoundOperation(<<Gate("X", 0), Gate("H", 2)>>),
     NonUnitaryOperation("Barrier", <<0, 1>>, <<>>)}

ROCircuits == SeqsUpTo(ROGates, MaxROLen)

InitRO ==
    /\ ops \in ROCircuits
    /\ input = ops
    /\ pass = "none"
    /\ ret = FALSE
    /\ ub = FALSE
    /\ runs = 0
    /\ local = NoLocal
    /\ layout = identityLayout

ReorderOperations ==
    /\ runs < MaxRuns
    /\ ~ub
    /\ LET st == reorderOperations(ops)
       IN  /\ ops' = IF st.crashed THEN ops ELSE st.ops
           /\ ub' = st.crashed
           /\ pass' = IF st.crashed THEN pass ELSE "reorderOperations"
    /\ input' = ops
    /\ runs' = runs + 1
    /\ UNCHANGED <<ret, local, layout>>

NextRO == ReorderOperations

SpecRO == InitRO /\ [][NextRO]_vars

(***************************************************************************)
(* Claims about reorderOperations.                                         *)
(***************************************************************************)
\* C17: a second run of reorderOperations on the output of a first run
\* returns and leaves the operation sequence exactly as the first run
\* produced it.
C17_ReorderFixedPoint ==
    (pass = "reorderOperations" /\ runs >= 2) => (~ub /\ ops = input)

C17_Witness ==
    /\ pass = "reorderOperations" /\ runs = 2 /\ ~ub
    /\ ops = input
    /\ ops = <<Gate("T", 2), CNOT(0, 1), SWAPGate(0, 2)>>

(***************************************************************************)
(* The DSU of collectBlocks.  The four maps of the DSU are functions on    *)
(* the qubits findBlock has initialised; currentBlockInCircuit holds a     *)
(* slot of qc.ops, 0 standing for nullptr, and currentBlockOperations the  *)
(* body of the block's Compound.  The record st holds the circuit and the  *)
(* DSU together, because the DSU writes into the circuit.  crashed is set  *)
(* when a checking build stops at the reassigned vector in finalizeBlock,  *)
(* and largest is a history value: the most qubits any block ever held.    *)
(***************************************************************************)
\* a slot of qc.ops whose operation was moved into a block
movedFrom ==
    [kind |-> "Null", type |-> "None", controls |-> {}, targets |-> <<>>,
     ops |-> <<>>, classics |-> <<>>, controlRegister |-> <<0, 0>>,
     expectedValue |-> 0]

emptyDSU(o) ==
    [ops |-> o, parent |-> emptyMap, bitBlocks |-> emptyMap,
     currentBlockInCircuit |-> emptyMap, currentBlockOperations |-> emptyMap,
     crashed |-> FALSE, largest |-> 0]

\* lines 1771-1776: the lazy initialisation in findBlock
initBlock(st, index) ==
    IF index \in DOMAIN st.parent THEN st
    ELSE [st EXCEPT !.parent = put(@, index, index),
                    !.bitBlocks = put(@, index, <<index>>),
                    !.currentBlockInCircuit = put(@, index, 0),
                    !.currentBlockOperations = put(@, index, <<>>)]

\* lines 1780-1781: the parent of index becomes the block found for it
compressPath(r, index) ==
    [st |-> [r.st EXCEPT !.parent[index] = r.block], block |-> r.block]

\* lines 1777-1781 of findBlock, for an index that is initialised
RECURSIVE findRoot(_, _)
findRoot(s, index) ==
    IF s.parent[index] = index THEN [st |-> s, block |-> index]
    ELSE compressPath(findRoot(initBlock(s, s.parent[index]), s.parent[index]),
                      index)

\* the block of index, and the DSU after initialisation and path compression
findBlock(st, index) == findRoot(initBlock(st, index), index)

rootEmpty(f) == f.st.currentBlockInCircuit[f.block] = 0

blockEmpty(st, index) == rootEmpty(findBlock(st, index))

Larger(a, b) == IF a >= b THEN a ELSE b

\* a merge that leaves the anchor of parent2 in the DSU
mergeKeepingAnchor(s, parent1, parent2) ==
    [s EXCEPT
        !.parent[parent2] = parent1,
        !.currentBlockOperations[parent1] = @ \o s.currentBlockOperations[parent2],
        !.bitBlocks[parent1] = @ \o s.bitBlocks[parent2],
        !.currentBlockOperations[parent2] = <<>>,
        !.bitBlocks[parent2] = <<>>,
        !.largest = Larger(@, Len(s.bitBlocks[parent1]) + Len(s.bitBlocks[parent2]))]

\* lines 1802-1813: the block parent2 is merged into the block parent1
mergeBlocks(s, parent1, parent2) ==
    [s EXCEPT
        !.parent[parent2] = parent1,
        !.currentBlockOperations[parent1] = @ \o s.currentBlockOperations[parent2],
        !.bitBlocks[parent1] = @ \o s.bitBlocks[parent2],
        !.ops = IF s.currentBlockInCircuit[parent2] # 0
                THEN [@ EXCEPT ![s.currentBlockInCircuit[parent2]] = Gate("I", 0)]
                ELSE @,
        !.currentBlockInCircuit[parent2] = 0,
        !.currentBlockOperations[parent2] = <<>>,
        !.bitBlocks[parent2] = <<>>,
        !.largest = Larger(@, Len(s.bitBlocks[parent1]) + Len(s.bitBlocks[parent2]))]

\* lines 1793-1801: nothing to do for one block; the block with fewer
\* operations is merged into the other
unionRoots(f2, parent1) ==
    IF parent1 = f2.block THEN f2.st
    ELSE IF Len(f2.st.currentBlockOperations[parent1]) <
            Len(f2.st.currentBlockOperations[f2.block])
    THEN mergeBlocks(f2.st, f2.block, parent1)
    ELSE mergeBlocks(f2.st, parent1, f2.block)

unionFound(f1, block2) == unionRoots(findBlock(f1.st, block2), f1.block)

unionBlock(st, block1, block2) == unionFound(findBlock(st, block1), block2)

RECURSIVE isConvertibleToSingleOperation(_)
isConvertibleToSingleOperation(body) ==
    /\ Len(body) = 1
    /\ isCompoundOperation(body[1]) => isConvertibleToSingleOperation(body[1].ops)

RECURSIVE collapseToSingleOperation(_)
collapseToSingleOperation(body) ==
    IF isCompoundOperation(body[1]) THEN collapseToSingleOperation(body[1].ops)
    ELSE body[1]

\* what a build does when the loop of lines 1836-1841 goes on over the vector
\* bitBlocks[block] after the loop has assigned {block} to it: the elements
\* are still in place ("old"), or a checking build stops ("abort")
StaleOutcomes == {"old", "abort"}

\* lines 1827-1841, for the block found for index
finalizeRoot(s, block, stale) ==
    LET body == s.currentBlockOperations[block]
        members == Range(s.bitBlocks[block])
    IN  IF s.currentBlockInCircuit[block] = 0 THEN s
        ELSE [s EXCEPT
                !.ops[s.currentBlockInCircuit[block]] =
                    IF isConvertibleToSingleOperation(body)
                    THEN collapseToSingleOperation(body)
                    ELSE CompoundOperation(body),
                !.parent = [i \in DOMAIN @ |-> IF i \in members THEN i ELSE @[i]],
                !.bitBlocks =
                    [i \in DOMAIN @ |-> IF i \in members THEN <<i>> ELSE @[i]],
                !.currentBlockInCircuit =
                    [i \in DOMAIN @ |-> IF i \in members THEN 0 ELSE @[i]],
                !.currentBlockOperations =
                    [i \in DOMAIN @ |-> IF i \in members THEN <<>> ELSE @[i]],
                !.crashed = @ \/ (Len(s.bitBlocks[block]) >= 2 /\ stale = "abort")]

finalizeFound(f, stale) == finalizeRoot(f.st, f.block, stale)

finalizeBlock(st, index, stale) == finalizeFound(findBlock(st, index), stale)

\* finalizeBlock for every qubit of qs, in ascending order
RECURSIVE finalizeAll(_, _, _)
finalizeAll(st, qs, stale) ==
    IF qs = {} THEN st
    ELSE LET q == CHOOSE x \in qs : \A y \in qs : x <= y
         IN  finalizeAll(finalizeBlock(st, q, stale), qs \ {q}, stale)

\* findBlock for every qubit of qs, in ascending order
RECURSIVE findAll(_, _)
findAll(st, qs) ==
    IF qs = {} THEN st
    ELSE LET q == CHOOSE x \in qs : \A y \in qs : x <= y
         IN  findAll(findBlock(st, q).st, qs \ {q})

\* the blocks of S by descending key; tie ranks the blocks of equal key (the
\* order an unordered_map and std::sort leave them in)
RECURSIVE sortedDescending(_, _, _)
sortedDescending(S, key, tie) ==
    IF S = {} THEN <<>>
    ELSE LET first == CHOOSE x \in S : \A y \in S :
                         key[x] > key[y] \/ (key[x] = key[y] /\ tie[x] <= tie[y])
         IN  <<[block |-> first, size |-> key[first]]>>
                 \o sortedDescending(S \ {first}, key, tie)

TieOrders ==
    {t \in [Qubits -> Qubits] : \A a, b \in Qubits : a # b => t[a] # t[b]}

RECURSIVE SumOver(_, _)
SumOver(S, f) ==
    IF S = {} THEN 0
    ELSE LET x == CHOOSE x \in S : TRUE IN f[x] + SumOver(S \ {x}, f)

(***************************************************************************)
(* collectBlocks, one iteration of its loop per step.                      *)
(***************************************************************************)
\* lines 1922-1931: fill the block at position it with the blocks behind it
RECURSIVE fillBlock(_, _, _, _, _)
fillBlock(st, sortedBlocks, it, nextIt, maxBlockSize) ==
    IF nextIt > Len(sortedBlocks) \/ sortedBlocks[it].size >= maxBlockSize
    THEN [st |-> st, sortedBlocks |-> sortedBlocks]
    ELSE IF sortedBlocks[it].size + sortedBlocks[nextIt].size <= maxBlockSize
    THEN fillBlock(unionBlock(st, sortedBlocks[it].block, sortedBlocks[nextIt].block),
                   erase([sortedBlocks EXCEPT
                             ![it].size = @ + sortedBlocks[nextIt].size], nextIt),
                   it, nextIt, maxBlockSize)
    ELSE fillBlock(st, sortedBlocks, it, nextIt + 1, maxBlockSize)

\* lines 1912-1933: the loop over the sorted blocks
RECURSIVE combineBlocks(_, _, _, _, _)
combineBlocks(st, sortedBlocks, it, maxBlockSize, stale) ==
    IF it > Len(sortedBlocks) THEN st
    ELSE IF sortedBlocks[it].size = maxBlockSize
    THEN combineBlocks(finalizeBlock(st, sortedBlocks[it].block, stale),
                       sortedBlocks, it + 1, maxBlockSize, stale)
    ELSE LET r == fillBlock(st, sortedBlocks, it, it + 1, maxBlockSize)
         IN  combineBlocks(finalizeBlock(r.st, sortedBlocks[it].block, stale),
                           r.sortedBlocks, it + 1, maxBlockSize, stale)

\* lines 1897-1933: the operation acts on more qubits than a block may hold
finalizeAllTouched(st, usedQubits, maxBlockSize, tie, stale) ==
    LET s == findAll(st, usedQubits)
        blocks == {b \in {findBlock(s, q).block : q \in usedQubits} :
                      ~blockEmpty(s, b)}
        blocksAndSizes == [b \in blocks |-> Len(s.bitBlocks[b])]
    IN  combineBlocks(s, sortedDescending(blocks, blocksAndSizes, tie), 1,
                      maxBlockSize, stale)

\* lines 1954-1959: finalize blocks while savings are still needed
RECURSIVE finalizeForSavings(_, _, _, _)
finalizeForSavings(st, sortedSavings, savingsNeed, stale) ==
    IF sortedSavings = <<>> THEN st
    ELSE IF savingsNeed > 0
    THEN finalizeForSavings(finalizeBlock(st, sortedSavings[1].block, stale),
                            Tail(sortedSavings),
                            savingsNeed - sortedSavings[1].size, stale)
    ELSE finalizeForSavings(st, Tail(sortedSavings), savingsNeed, stale)

\* lines 1935-1960: free just enough space for the operation
freeSpace(st, usedQubits, maxBlockSize, tie, stale) ==
    LET s == findAll(st, usedQubits)
        blocks == {findBlock(s, q).block : q \in usedQubits}
        savings == [b \in blocks |->
                       Len(s.bitBlocks[b]) -
                       Cardinality({q \in usedQubits : findBlock(s, q).block = b})]
        totalSize == SumOver(blocks, [b \in blocks |-> Len(s.bitBlocks[b])])
    IN  finalizeForSavings(s, sortedDescending(blocks, savings, tie),
                           totalSize - maxBlockSize, stale)

neverTooBig(st, usedQubits, maxBlockSize) == FALSE

\* lines 1870-1883: the blocks of the operation's qubits hold too many qubits
makesTooBig(st, usedQubits, maxBlockSize) ==
    LET s == findAll(st, usedQubits)
        blockQubits == {findBlock(s, q).block : q \in usedQubits}
    IN  SumOver(blockQubits, [b \in blockQubits |-> Len(s.bitBlocks[b])])
            > maxBlockSize

\* lines 1964-1971: the qubits of the operation are united pairwise
RECURSIVE unionUsed(_, _, _)
unionUsed(st, prev, qs) ==
    IF qs = {} THEN st
    ELSE LET q == CHOOSE x \in qs : \A y \in qs : x <= y
         IN  unionUsed(IF prev = -1 THEN st ELSE unionBlock(st, prev, q),
                       q, qs \ {q})

MaxOf(S) == CHOOSE x \in S : \A y \in S : y <= x

\* line 1979: the operation at opIt is moved to the end of the block
emplaceOperation(s, block, opIt) ==
    [s EXCEPT !.currentBlockOperations[block] = Append(@, s.ops[opIt]),
              !.largest = Larger(@, Len(s.bitBlocks[block]))]

\* lines 1975-1987: the first operation of a block stays in the circuit as
\* the block's slot, a later one is erased
joinFound(f, opIt) ==
    IF rootEmpty(f)
    THEN [st |-> [emplaceOperation(f.st, f.block, opIt) EXCEPT
                     !.currentBlockInCircuit[f.block] = opIt,
                     !.ops[opIt] = movedFrom],
          opIt |-> opIt + 1]
    ELSE [st |-> [emplaceOperation(f.st, f.block, opIt) EXCEPT
                     !.ops = erase(@, opIt)],
          opIt |-> opIt]

\* lines 1967-1987: the operation at opIt joins the block of its qubits
joinBlock(c, usedQubits) ==
    joinFound(findBlock(unionUsed(c.st, -1, usedQubits), MaxOf(usedQubits)),
              c.opIt)

\* lines 1890-1988, for an operation that can be processed
collectUnitary(checked, opIt, usedQubits, tooBig, maxBlockSize, tie, stale) ==
    IF Cardinality(usedQubits) > maxBlockSize
    THEN [st |-> IF tooBig
                 THEN finalizeAllTouched(checked, usedQubits, maxBlockSize,
                                         tie, stale)
                 ELSE checked,
          opIt |-> opIt + 1]
    ELSE joinBlock([st |-> IF tooBig
                           THEN freeSpace(checked, usedQubits, maxBlockSize,
                                          tie, stale)
                           ELSE checked,
                    opIt |-> opIt],
                   usedQubits)

\* lines 1869-1988
collectOperation(c, usedQubits, canProcess, maxBlockSize, tie, stale) ==
    IF ~canProcess
    THEN [st |-> finalizeAll(c.st, usedQubits, stale), opIt |-> c.opIt + 1]
    ELSE collectUnitary(findAll(c.st, usedQubits), c.opIt, usedQubits,
                        makesTooBig(c.st, usedQubits, maxBlockSize),
                        maxBlockSize, tie, stale)

\* lines 1858-1989: the loop body for the operation at opIt
collectStep(c, maxBlockSize, tie, stale) ==
    collectOperation(c, getUsedQubits(c.st.ops[c.opIt]),
                     isUnitary(c.st.ops[c.opIt]), maxBlockSize, tie, stale)

\* lines 1992-1997: the remaining blocks are finalized (in any order: they
\* write to different slots) and the identities removed
collectFinish(st, stale) ==
    LET f == finalizeAll(st, {q \in DOMAIN st.parent : st.parent[q] = q}, stale)
    IN  [f EXCEPT !.ops = removeIdentities(@)]

\* every way deferMeasurements can run to its end from st: it returns,
\* raises, or hangs in a scan iteration that changes nothing
RECURSIVE deferMeasurements(_)
deferMeasurements(st) ==
    IF st.local.phase \in {"returned", "raised"} THEN {st}
    ELSE IF st.local.phase = "outer"
    THEN UNION {deferMeasurements(deferOuter(st, order)) :
                   order \in iterationOrders(st.local.qubitsToAddMeasurements)}
    ELSE IF deferScan(st) = st THEN {[st EXCEPT !.local.phase = "hangs"]}
    ELSE deferMeasurements(deferScan(st))

collectStart(maxBlockSize) == [phase |-> "start", maxBlockSize |-> maxBlockSize]

\* the circuit and the DSU, as the operators above take them
collectState ==
    [ops |-> ops, parent |-> local.parent, bitBlocks |-> local.bitBlocks,
     currentBlockInCircuit |-> local.currentBlockInCircuit,
     currentBlockOperations |-> local.currentBlockOperations,
     crashed |-> FALSE, largest |-> local.largest]

collectLocal(st, opIt, maxBlockSize, phase) ==
    [phase |-> IF st.crashed THEN "crashed" ELSE phase,
     maxBlockSize |-> maxBlockSize, opIt |-> opIt,
     parent |-> st.parent, bitBlocks |-> st.bitBlocks,
     currentBlockInCircuit |-> st.currentBlockInCircuit,
     currentBlockOperations |-> st.currentBlockOperations,
     largest |-> st.largest]

(***************************************************************************)
(* Inputs of collectBlocks: every circuit of at most MaxCBLen of the       *)
(* operations below, with every maxBlockSize up to the number of qubits.   *)
(***************************************************************************)
CBGates ==
    {Gate("X", 2), Gate("H", 0), CNOT(0, 1), CNOT(1, 2),
     StandardOperation("X", {PosControl(0), PosControl(1)}, <<2>>),
     BarrierOp(1), MeasureOp(2, 0)}

CBCircuits == SeqsUpTo(CBGates, MaxCBLen)

BlockSizes == 0 .. NQ

InitCB ==
    /\ ops \in CBCircuits
    /\ input = ops
    /\ pass = "none"
    /\ ret = FALSE
    /\ ub = FALSE
    /\ runs = 0
    /\ local \in {collectStart(k) : k \in BlockSizes}
    /\ layout = identityLayout

\* lines 1847-1856: the early return and the two passes run first
CollectBlocksStart ==
    /\ local.phase = "start"
    /\ IF Len(ops) <= 1
       THEN /\ local' = [local EXCEPT !.phase = "returned"]
            /\ pass' = "collectBlocks"
            /\ runs' = runs + 1
            /\ UNCHANGED <<ops, ub, layout>>
       ELSE LET r == reorderOperations(ops)
            IN  IF r.crashed
                THEN /\ local' = [local EXCEPT !.phase = "crashed"]
                     /\ ub' = TRUE
                     /\ UNCHANGED <<ops, pass, runs, layout>>
                ELSE \E d \in deferMeasurements([ops |-> r.ops, local |-> deferStart]) :
                        /\ ops' = d.ops
                        /\ local' =
                              IF d.local.phase = "returned"
                              THEN collectLocal(emptyDSU(d.ops), 1,
                                                local.maxBlockSize, "collect")
                              ELSE [local EXCEPT !.phase = d.local.phase]
                        /\ layout' =
                              IF d.local.phase = "returned"
                                 /\ d.local.qubitsToAddMeasurements # {}
                              THEN initializeIOMapping(
                                       [layout EXCEPT !.outputPermutation = emptyMap],
                                       d.ops)
                              ELSE layout
                        /\ UNCHANGED <<ub, pass, runs>>
    /\ UNCHANGED <<input, ret>>

\* the orders in which the sort of lines 1908-1910 and 1950-1952 can leave
\* blocks of equal key; the step sorts only if the operation makesTooBig
tieOrders(st, opIt, maxBlockSize) ==
    IF isUnitary(st.ops[opIt])
       /\ makesTooBig(st, getUsedQubits(st.ops[opIt]), maxBlockSize)
    THEN TieOrders
    ELSE {[q \in Qubits |-> q]}

\* the outcomes of one iteration over StaleOutcomes: they differ only if the
\* iteration finalizes a block of two or more qubits
staleOutcomes(aborting, c, maxBlockSize, tie) ==
    IF aborting.st.crashed
    THEN {aborting, collectStep(c, maxBlockSize, tie, "old")}
    ELSE {aborting}

collectOutcomes(c, maxBlockSize, tie) ==
    staleOutcomes(collectStep(c, maxBlockSize, tie, "abort"), c, maxBlockSize, tie)

\* one iteration of the loop of lines 1858-1989
CollectBlocksStep ==
    /\ local.phase = "collect"
    /\ local.opIt <= Len(ops)
    /\ \E tie \in tieOrders(collectState, local.opIt, local.maxBlockSize) :
          \E c \in collectOutcomes([st |-> collectState, opIt |-> local.opIt],
                                   local.maxBlockSize, tie) :
              /\ ops' = c.st.ops
              /\ local' = collectLocal(c.st, c.opIt, local.maxBlockSize, "collect")
              /\ ub' = c.st.crashed
    /\ UNCHANGED <<input, pass, ret, runs, layout>>

\* lines 1991-1997, after the loop
CollectBlocksFinish ==
    /\ local.phase = "collect"
    /\ local.opIt > Len(ops)
    /\ \E stale \in StaleOutcomes :
          LET st == collectFinish(collectState, stale)
          IN  /\ ops' = IF st.crashed THEN ops ELSE st.ops
              /\ local' = collectLocal(st, local.opIt, local.maxBlockSize, "returned")
              /\ ub' = st.crashed
              /\ pass' = IF st.crashed THEN pass ELSE "collectBlocks"
              /\ runs' = IF st.crashed THEN runs ELSE runs + 1
    /\ UNCHANGED <<input, ret, layout>>

NextCB == CollectBlocksStart \/ CollectBlocksStep \/ CollectBlocksFinish

SpecCB == InitCB /\ [][NextCB]_vars

(***************************************************************************)
(* Claims about collectBlocks.                                             *)
(***************************************************************************)
\* the blocks that hold operations
filledBlocks ==
    {b \in DOMAIN local.parent : local.currentBlockOperations[b] # <<>>}

\* the operations of every block act on qubits of the block, on at most
\* maxBlockSize of them, and every Compound in the circuit acts on at most
\* maxBlockSize qubits
blocksWrittenWithinMaxBlockSize ==
    /\ \A b \in filledBlocks :
          \A i \in DOMAIN local.currentBlockOperations[b] :
              /\ getUsedQubits(local.currentBlockOperations[b][i])
                     \subseteq Range(local.bitBlocks[b])
              /\ Cardinality(getUsedQubits(local.currentBlockOperations[b][i]))
                     <= local.maxBlockSize
    /\ \A i \in DOMAIN ops :
          isCompoundOperation(ops[i]) =>
              Cardinality(getUsedQubits(ops[i])) <= local.maxBlockSize

\* C15 as stated: at every point of collectBlocks each DSU block holds at
\* most maxBlockSize qubits, every block written back to the circuit acts on
\* at most maxBlockSize qubits, and an operation on more than maxBlockSize
\* qubits is in no block.
C15_EveryBlockWithinMaxBlockSize ==
    (local.phase \in {"collect", "returned"} /\ "opIt" \in DOMAIN local) =>
        /\ \A b \in DOMAIN local.bitBlocks :
              Len(local.bitBlocks[b]) <= local.maxBlockSize
        /\ blocksWrittenWithinMaxBlockSize

\* C15 amended: at every point of collectBlocks each DSU block that holds
\* operations has at most maxBlockSize qubits and never had more, and so has
\* every DSU block when maxBlockSize is at least 1 (with maxBlockSize 0 the
\* blocks that findBlock creates hold one qubit and no operation); every
\* block written back to the circuit acts on at most maxBlockSize qubits,
\* and an operation on more than maxBlockSize qubits is in no block.
C15_BlocksWithinMaxBlockSize ==
    (local.phase \in {"collect", "returned"} /\ "opIt" \in DOMAIN local) =>
        /\ local.largest <= local.maxBlockSize
        /\ \A b \in filledBlocks :
              Len(local.bitBlocks[b]) <= local.maxBlockSize
        /\ local.maxBlockSize >= 1 =>
              \A b \in DOMAIN local.bitBlocks :
                  Len(local.bitBlocks[b]) <= local.maxBlockSize
        /\ blocksWrittenWithinMaxBlockSize

C15_Witness ==
    /\ local.phase = "returned" /\ "opIt" \in DOMAIN local
    /\ local.maxBlockSize = 2
    /\ local.largest = 2
    /\ input = <<CNOT(0, 1), Gate("H", 0), CNOT(1, 2)>>
    /\ \E i \in DOMAIN ops : isCompoundOperation(ops[i])

\* the operations of the circuit with every Compound replaced by its children
RECURSIVE flattened(_)
flattened(o) ==
    IF o = <<>> THEN <<>>
    ELSE (IF isCompoundOperation(o[1]) THEN o[1].ops ELSE <<o[1]>>)
             \o flattened(Tail(o))

\* C16: for a circuit of unitary operations, the result of collectBlocks read
\* in circuit order, each Compound by its children in order, holds every
\* operation of the input as often as the input does, and for every qubit the
\* operations acting on it are in the order they had in the input.
C16_CollectBlocksKeepsOperations ==
    (pass = "collectBlocks" /\ \A i \in DOMAIN input : isUnitary(input[i])) =>
        /\ \A op \in Range(input) \cup Range(flattened(ops)) :
              occurrences(flattened(ops), op) = occurrences(input, op)
        /\ \A q \in Qubits : laneView(flattened(ops), {q}) = laneView(input, {q})

(***************************************************************************)
(* backpropagateOutputPermutation, one visited operation or one qubit of   *)
(* the closing loop per step.  local holds the working permutation, the    *)
(* pool missingLogicalQubits, and the operations still to visit.           *)
(***************************************************************************)
\* the order in which the reverse walk visits the operations that are not
\* Compounds (lines 1633-1639)
RECURSIVE visitOrder(_)
visitOrder(o) ==
    IF o = <<>> THEN <<>>
    ELSE (IF isCompoundOperation(Last(o)) THEN visitOrder(Last(o).ops)
          ELSE <<Last(o)>>) \o visitOrder(pop_back(o))

\* line 1641: the operations the walk acts on
isPlainSWAP(op) ==
    op.type = "SWAP" /\ op.controls = {} /\ Len(op.targets) = 2

image(permutation) == {permutation[p] : p \in DOMAIN permutation}

keepEntries(permutation, a, b) == permutation

\* line 1655: std::swap of the two entries
swapEntries(permutation, a, b) ==
    [permutation EXCEPT ![a] = permutation[b], ![b] = permutation[a]]

keepInPool(missingLogicalQubits, l) == missingLogicalQubits

\* lines 1667, 1671, 1684, 1688, 1729, 1732: a logical qubit leaves the pool
eraseFromPool(missingLogicalQubits, l) == missingLogicalQubits \ {l}

\* lines 1665-1673 (and 1682-1690, 1727-1734): physical qubit p gets logical
\* qubit p if that is in the pool, else the element the pool's begin() names
\* (pick); taking it from an empty pool is recorded in crashed
placeFromPool(st, p, pick) ==
    IF p \in st.missingLogicalQubits
    THEN [st EXCEPT !.permutation = put(@, p, p),
                    !.missingLogicalQubits = eraseFromPool(@, p)]
    ELSE IF st.missingLogicalQubits = {} THEN [st EXCEPT !.crashed = TRUE]
    ELSE [st EXCEPT !.permutation = put(@, p, pick),
                    !.missingLogicalQubits = eraseFromPool(@, pick)]

\* lines 1641-1694: the walk visits op
backpropagateVisit(st, op, pick) ==
    IF ~isPlainSWAP(op) THEN st
    ELSE LET t0 == op.targets[1]
             t1 == op.targets[2]
             in0 == t0 \in DOMAIN st.permutation
             in1 == t1 \in DOMAIN st.permutation
         IN  IF in0 /\ in1
             THEN [st EXCEPT !.permutation = swapEntries(@, t0, t1)]
             ELSE IF in0
             THEN placeFromPool(
                      [st EXCEPT !.permutation = put(@, t1, st.permutation[t0])],
                      t0, pick)
             ELSE IF in1
             THEN placeFromPool(
                      [st EXCEPT !.permutation = put(@, t0, st.permutation[t1])],
                      t1, pick)
             ELSE st

\* lines 1699-1711: the working permutation and the pool at the start
backpropagateStart(lay) ==
    [permutation |-> lay.outputPermutation,
     missingLogicalQubits |->
         (0 .. (lay.nqubits - 1)) \ image(lay.outputPermutation),
     crashed |-> FALSE]

\* the element begin() can name: any element of the pool
poolPicks(missingLogicalQubits) ==
    IF missingLogicalQubits = {} THEN {0} ELSE missingLogicalQubits

(***************************************************************************)
(* Inputs of backpropagateOutputPermutation: every circuit of at most      *)
(* MaxBPLen of the operations below, with every injective output           *)
(* permutation from physical qubits to logical qubits below the qubit      *)
(* count.                                                                  *)
(***************************************************************************)
BPGates ==
    {SWAPGate(0, 1), SWAPGate(1, 2), Gate("H", 1),
     StandardOperation("SWAP", {PosControl(0)}, <<1, 2>>),
     CompoundOperation(<<SWAPGate(0, 2), Gate("H", 0)>>)}

BPCircuits == SeqsUpTo(BPGates, MaxBPLen)

isInjective(f) == \A a, b \in DOMAIN f : a # b => f[a] # f[b]

OutputPermutations ==
    UNION {{f \in [D -> Qubits] : isInjective(f)} : D \in SUBSET Qubits}

InitBP ==
    /\ ops \in BPCircuits
    /\ input = ops
    /\ pass = "none"
    /\ ret = FALSE
    /\ ub = FALSE
    /\ runs = 0
    /\ local = [phase |-> "start"]
    /\ layout \in {[identityLayout EXCEPT !.outputPermutation = f] :
                      f \in OutputPermutations}

backpropagateLocal(st, phase, todo, i) ==
    [phase |-> IF st.crashed THEN "crashed" ELSE phase,
     permutation |-> st.permutation,
     missingLogicalQubits |-> st.missingLogicalQubits,
     todo |-> todo, i |-> i]

backpropagateState ==
    [permutation |-> local.permutation,
     missingLogicalQubits |-> local.missingLogicalQubits, crashed |-> FALSE]

\* lines 1698-1711
BackpropagateStart ==
    /\ local.phase = "start"
    /\ local' = backpropagateLocal(backpropagateStart(layout), "walk",
                                   visitOrder(ops), 0)
    /\ UNCHANGED <<ops, input, pass, ret, runs, ub, layout>>

\* one iteration of the reverse walk
BackpropagateVisit ==
    /\ local.phase = "walk"
    /\ local.todo # <<>>
    /\ \E pick \in poolPicks(local.missingLogicalQubits) :
          LET st == backpropagateVisit(backpropagateState, local.todo[1], pick)
          IN  /\ local' = backpropagateLocal(st, "walk", Tail(local.todo), 0)
              /\ ub' = st.crashed
    /\ UNCHANGED <<ops, input, pass, ret, runs, layout>>

\* lines 1716-1721: the walk is over; a complete layout is returned at once
BackpropagateWalked ==
    /\ local.phase = "walk"
    /\ local.todo = <<>>
    /\ IF Cardinality(DOMAIN local.permutation) = layout.nqubits
       THEN /\ layout' = [layout EXCEPT !.initialLayout = local.permutation]
            /\ local' = [local EXCEPT !.phase = "returned"]
            /\ pass' = "backpropagateOutputPermutation"
            /\ runs' = runs + 1
       ELSE /\ local' = [local EXCEPT !.phase = "fill"]
            /\ UNCHANGED <<layout, pass, runs>>
    /\ UNCHANGED <<ops, input, ret, ub>>

\* one iteration of the loop of lines 1726-1736
BackpropagateFill ==
    /\ local.phase = "fill"
    /\ local.i < layout.nqubits
    /\ \E pick \in poolPicks(local.missingLogicalQubits) :
          LET st == IF local.i \in DOMAIN local.permutation
                    THEN backpropagateState
                    ELSE placeFromPool(backpropagateState, local.i, pick)
          IN  /\ local' = backpropagateLocal(st, "fill", local.todo, local.i + 1)
              /\ ub' = st.crashed
    /\ UNCHANGED <<ops, input, pass, ret, runs, layout>>

\* lines 1737-1738
BackpropagateReturn ==
    /\ local.phase = "fill"
    /\ local.i = layout.nqubits
    /\ layout' = [layout EXCEPT !.initialLayout = local.permutation]
    /\ local' = [local EXCEPT !.phase = "returned"]
    /\ pass' = "backpropagateOutputPermutation"
    /\ runs' = runs + 1
    /\ UNCHANGED <<ops, input, ret, ub>>

NextBP ==
    \/ BackpropagateStart
    \/ BackpropagateVisit
    \/ BackpropagateWalked
    \/ BackpropagateFill
    \/ BackpropagateReturn

SpecBP == InitBP /\ [][NextBP]_vars

(***************************************************************************)
(* Claims about backpropagateOutputPermutation.                            *)
(***************************************************************************)
\* a layout pushed forward through the uncontrolled two-qubit SWAPs of o in
\* program order, Compound bodies included
RECURSIVE pushForward(_, _)
pushForward(lay, o) ==
    IF o = <<>> THEN lay
    ELSE pushForward(
             IF isCompoundOperation(o[1]) THEN pushForward(lay, o[1].ops)
             ELSE IF isPlainSWAP(o[1])
             THEN [lay EXCEPT ![o[1].targets[1]] = lay[o[1].targets[2]],
                              ![o[1].targets[2]] = lay[o[1].targets[1]]]
             ELSE lay,
             Tail(o))

backpropagated == pass = "backpropagateOutputPermutation"

\* C18: the initial layout that backpropagateOutputPermutation computes,
\* pushed forward through the circuit's uncontrolled two-qubit SWAPs, gives
\* every physical qubit of the output permutation's domain the logical qubit
\* the output permutation assigns to it.
C18_InitialLayoutConsistent ==
    backpropagated =>
        /\ DOMAIN layout.initialLayout = 0 .. (layout.nqubits - 1)
        /\ \A p \in DOMAIN layout.outputPermutation :
              pushForward(layout.initialLayout, ops)[p] = layout.outputPermutation[p]

C18_Witness ==
    /\ backpropagated
    /\ ops = <<SWAPGate(0, 1), CompoundOperation(<<SWAPGate(0, 2), Gate("H", 0)>>)>>
    /\ DOMAIN layout.outputPermutation = {0, 2}
    /\ layout.outputPermutation[0] = 1
    /\ layout.outputPermutation[2] = 0
    /\ layout.initialLayout # [q \in Qubits |-> q]

\* C19: throughout backpropagateOutputPermutation the working permutation is
\* injective and the pool is exactly the set of logical qubits below the
\* qubit count that are not in its image, no element is ever taken from an
\* empty pool, and on return the initial layout is a bijection from the
\* physical qubits 0..n-1 onto the logical qubits 0..n-1 and the pool is empty.
C19_PoolIsComplementOfImage ==
    /\ ~ub
    /\ local.phase \in {"walk", "fill", "returned"} =>
          /\ isInjective(local.permutation)
          /\ local.missingLogicalQubits =
                 (0 .. (layout.nqubits - 1)) \ image(local.permutation)
    /\ backpropagated =>
          /\ DOMAIN layout.initialLayout = 0 .. (layout.nqubits - 1)
          /\ isInjective(layout.initialLayout)
          /\ image(layout.initialLayout) = 0 .. (layout.nqubits - 1)
          /\ local.missingLogicalQubits = {}

C19_Witness ==
    /\ backpropagated
    /\ ops = <<SWAPGate(0, 1), SWAPGate(1, 2)>>
    /\ DOMAIN layout.outputPermutation = {1}
    /\ layout.outputPermutation[1] = 0
    /\ local.missingLogicalQubits = {}
    /\ layout.initialLayout[0] = 1
    /\ layout.initialLayout[1] = 2

(***************************************************************************)
(* Claims about swapReconstruction's reversed-CNOT case.                   *)
(***************************************************************************)
\* the loop of swapReconstruction just before it visits the last operation
beforeLastVisit(o) ==
    [ops |-> swapReconstructionLoop(
                 [ops |-> pop_back(o), dag |-> EmptyDAG], 1).ops \o <<Last(o)>>,
     dag |-> swapReconstructionLoop(
                 [ops |-> pop_back(o), dag |-> EmptyDAG], 1).dag]

\* the last operation of o is a CNOT(c, t) and the previous operation on both
\* of its lanes is the CNOT(t, c) in slot p
reversedPairAtEnd(o, p, c, t) ==
    /\ Len(o) >= 2
    /\ Last(o) = CNOT(c, t)
    /\ LET st == beforeLastVisit(o)
       IN  /\ st.dag[c] # <<>> /\ st.dag[t] # <<>>
           /\ Last(st.dag[c]) = p /\ Last(st.dag[t]) = p
           /\ st.ops[p] = CNOT(t, c)

\* the circuit swapReconstruction returns when the visit of the last
\* operation leaves slot p as prev and the last slot as cur
afterLastVisit(o, p, prev, cur) ==
    removeIdentities(
        [beforeLastVisit(o).ops EXCEPT ![p] = prev, ![Len(o)] = cur])

\* C20 as stated: the earlier operation becomes an uncontrolled SWAP with
\* ascending targets and the visited operation stays CNOT(c, t).
C20_DirectionPreserved ==
    (pass = "swapReconstruction") =>
        \A p \in DOMAIN input, c \in Qubits, t \in Qubits :
            reversedPairAtEnd(input, p, c, t) =>
                ops = afterLastVisit(input, p,
                          SWAPGate(IF c < t THEN c ELSE t, IF c < t THEN t ELSE c),
                          CNOT(c, t))

\* C20, amended: when swapReconstruction visits a positive-control CNOT(c, t)
\* whose previous operation on both lanes is the reversed CNOT(t, c), the
\* earlier operation becomes an uncontrolled SWAP on the two qubits with
\* ascending targets and the visited operation becomes CNOT(t, c), its
\* direction reversed.
C20_DirectionReversed ==
    (pass = "swapReconstruction") =>
        \A p \in DOMAIN input, c \in Qubits, t \in Qubits :
            reversedPairAtEnd(input, p, c, t) =>
                ops = afterLastVisit(input, p,
                          SWAPGate(IF c < t THEN c ELSE t, IF c < t THEN t ELSE c),
                          CNOT(t, c))

C20_Witness ==
    /\ pass = "swapReconstruction"
    /\ input = <<Gate("X", NQ - 1), CNOT(1, 0), CNOT(0, 1)>>
    /\ reversedPairAtEnd(input, 2, 0, 1)
    /\ ops = <<Gate("X", NQ - 1), SWAPGate(0, 1), CNOT(1, 0)>>

(***************************************************************************)
(* Claims about what removeDiagonalGatesBeforeMeasure removes.  Inputs:    *)
(* every circuit of at most MaxDGLen operations of DGWGates, which hold a  *)
(* diagonal gate on two targets, a Compound, a ClassicControlledOperation  *)
(* and a negative control.                                                 *)
(***************************************************************************)
DGWGates ==
    {StandardOperation("RZZ", {}, <<0, 1>>), Gate("H", 1), Gate("Z", 1),
     MeasureOp(0, 0), MeasureOp(1, 1),
     NonUnitaryOperation("Measure", <<0, 1>>, <<0, 1>>),
     CompoundOperation(<<Gate("Z", 1), Gate("Z", 0)>>),
     ClassicControlledOperation(Gate("Z", 0), <<2, 1>>, 1),
     StandardOperation("Z", {NegControl(0)}, <<1>>)}

DGWCircuits == SeqsUpTo(DGWGates, MaxDGLen)

InitDGW ==
    /\ ops \in DGWCircuits
    /\ input = ops
    /\ pass = "none"
    /\ ret = FALSE
    /\ ub = FALSE
    /\ local = NoLocal
    /\ layout = identityLayout
    /\ runs = 0

SpecDGW == InitDGW /\ [][NextDG]_vars

\* the operations the pass looks at one by one: <<slot, 0>> for an operation
\* of the circuit, <<slot, k>> for the k-th child of a Compound and for the
\* operation a ClassicControlledOperation wraps
leafRefs(o) ==
    UNION {IF isCompoundOperation(o[i]) \/ isClassicControlledOperation(o[i])
           THEN {<<i, k>> : k \in DOMAIN o[i].ops}
           ELSE {<<i, 0>>} : i \in DOMAIN o}

refAt(o, r) == IF r[2] = 0 THEN o[r[1]] ELSE o[r[1]].ops[r[2]]

refBefore(r1, r2) == r1[1] < r2[1] \/ (r1[1] = r2[1] /\ r1[2] < r2[2])

\* the pass has retyped the operation r of the input to identity
retyped(r) == refAt(local.marked, r).type = "I" /\ refAt(input, r).type # "I"

\* the operations after r on the lane of q
laneAfter(o, r, q) ==
    {x \in leafRefs(o) : refBefore(r, x) /\ q \in getUsedQubits(refAt(o, x))}

\* after r the lane of q holds only operations the pass removes, and then a
\* Measure of q that it keeps
commutesToMeasure(r, q) ==
    \E m \in laneAfter(input, r, q) :
        /\ refAt(input, m).type = "Measure"
        /\ ~retyped(m)
        /\ \A x \in laneAfter(input, r, q) \ {m} : refBefore(x, m) /\ retyped(x)

diagonalGatesRemoved == pass = "removeDiagonalGatesBeforeMeasure"

\* C21: every operation removeDiagonalGatesBeforeMeasure retypes to identity
\* has a diagonal gate type and no negative control, and on every qubit it
\* acts on it is followed only by operations the pass also removes and then
\* by a final Measure of that qubit (stated for the runs without undefined
\* behaviour).
C21_OnlyRemovesWhatCommutes ==
    (diagonalGatesRemoved /\ ~ub) =>
        \A r \in leafRefs(input) :
            retyped(r) =>
                /\ refAt(input, r).type \in DIAGONAL_GATES
                /\ \A c \in refAt(input, r).controls : c.type = "Pos"
                /\ \A q \in getUsedQubits(refAt(input, r)) : commutesToMeasure(r, q)

\* C22: removeDiagonalGatesBeforeMeasure never reads or advances a lane
\* cursor that is past the end of its lane, and it keeps a controlled
\* diagonal operation when on another of its qubits the walk cannot reach it
\* (a kept operation other than the final Measure follows it on that lane).
C22_NoCursorPastTheEnd ==
    diagonalGatesRemoved =>
        /\ ~ub
        /\ \A r \in leafRefs(input) :
              (/\ refAt(input, r).controls # {}
               /\ \E q \in getUsedQubits(refAt(input, r)) : ~commutesToMeasure(r, q))
                  => ~retyped(r)

(***************************************************************************)
(* removeFinalMeasurements.  The walk's state is the one of                *)
(* removeDiagonalGatesBeforeMeasure; every cursor starts at rbegin.        *)
(***************************************************************************)
\* CompoundOperation::isNonUnitaryOperation: one of the children is
nonUnitaryCompound(op) ==
    isCompoundOperation(op) /\ \E i \in DOMAIN op.ops : isNonUnitaryOperation(op.ops[i])

\* the loop over the targets of a removed operation: each cursor is advanced,
\* the loop is left at the first cursor found at rend
RECURSIVE advanceTargets(_, _)
advanceTargets(st, targets) ==
    IF targets = <<>> \/ atRend(st, Head(targets)) THEN st
    ELSE advanceTargets(advance(st, {Head(targets)}), Tail(targets))

\* removeFinalMeasurementsRecursive and removeFinalMeasurement, which call
\* each other, as one operator; call names the part entered, x and y are its
\* arguments, the value is [st, ok]:
\*   "recursive"    removeFinalMeasurementsRecursive, x = until (0: none)
\*   "walk"         its while loop on the lane idx, x = until
\*   "children"     the reverse loop over the children y, y-1, ..., 1 of the
\*                  Compound at slot x
\*   "measurement"  removeFinalMeasurement of the operation x = <<slot, k>>
\*   "targets"      its loop over the targets x still to visit
RECURSIVE removeFinalMeasurementsWalk(_, _, _, _, _)
removeFinalMeasurementsWalk(call, st, idx, x, y) ==
    IF call = "targets" THEN
        IF x = <<>> THEN [st |-> st, ok |-> TRUE]
        ELSE
        LET target == Head(x) IN
        IF target = idx
        THEN removeFinalMeasurementsWalk("targets", st, idx, Tail(x), 0)
        ELSE IF atRend(st, target) THEN [st |-> st, ok |-> FALSE]
        ELSE IF st.cur[idx] <= 0 THEN [st |-> crash(st), ok |-> FALSE]
        ELSE
        LET st1 == removeFinalMeasurementsWalk("recursive", st, target,
                                               slotAt(st, idx), 0).st
        IN
        IF st1.crashed \/ atRend(st1, target) THEN [st |-> st1, ok |-> FALSE]
        ELSE IF readsPastEnd(st1, target, idx) /\ st1.pastEnd = "crash"
        THEN [st |-> crash(st1), ok |-> FALSE]
        ELSE IF cursorsDiffer(st1, target, idx)
        THEN [st |-> markRead(st1, target, idx), ok |-> FALSE]
        ELSE removeFinalMeasurementsWalk("targets", markRead(st1, target, idx),
                                         idx, Tail(x), 0)
    ELSE IF call = "measurement" THEN
        LET op == opAt(st, x) IN
        IF Len(op.targets) = 0 THEN [st |-> st, ok |-> FALSE]
        ELSE LET r == removeFinalMeasurementsWalk("targets", st, idx, op.targets, 0)
             IN IF r.st.crashed THEN [st |-> r.st, ok |-> FALSE]
                ELSE IF ~r.ok THEN [st |-> toRend(r.st, idx), ok |-> FALSE]
                ELSE [st |-> setGateAt(r.st, x, "I"), ok |-> TRUE]
    ELSE IF call = "children" THEN
        IF y = 0 THEN [st |-> st, ok |-> TRUE]
        ELSE LET cop == st.ops[x].ops[y] IN
             IF Len(cop.targets) > 0 /\ cop.targets[1] # idx
             THEN removeFinalMeasurementsWalk("children", st, idx, x, y - 1)
             ELSE LET r == removeFinalMeasurementsWalk("measurement", st, idx,
                                                       <<x, y>>, 0)
                  IN IF ~r.ok THEN r
                     ELSE removeFinalMeasurementsWalk("children", r.st, idx, x, y - 1)
    ELSE IF call = "walk" THEN
        IF st.crashed \/ atRend(st, idx) THEN [st |-> st, ok |-> TRUE]
        ELSE IF st.cur[idx] < 0 THEN [st |-> crash(st), ok |-> TRUE]
        ELSE IF x # 0 /\ slotAt(st, idx) = x THEN [st |-> st, ok |-> TRUE]
        ELSE
        LET slot == slotAt(st, idx)
            op == st.ops[slot]
        IN
        IF op.type \in {"Measure", "Barrier"}
        THEN LET r == removeFinalMeasurementsWalk("measurement", st, idx,
                                                  <<slot, 0>>, 0)
             IN removeFinalMeasurementsWalk("walk",
                   IF r.ok THEN advanceTargets(r.st, op.targets) ELSE r.st,
                   idx, x, 0)
        ELSE IF nonUnitaryCompound(op)
        THEN LET r == removeFinalMeasurementsWalk("children", st, idx, slot,
                                                  Len(op.ops))
             IN IF ~r.ok /\ ~r.st.crashed /\ r.st.cur = st.cur
                THEN \* a child without targets: the loop does not end
                     [st |-> [r.st EXCEPT !.crashed = TRUE], ok |-> FALSE]
                ELSE removeFinalMeasurementsWalk("walk",
                        IF r.ok THEN advance(r.st, {idx}) ELSE r.st, idx, x, 0)
        ELSE [st |-> toRend(st, idx), ok |-> TRUE]
    ELSE \* "recursive"
        IF st.crashed THEN [st |-> st, ok |-> TRUE]
        ELSE IF atRend(st, idx)
        THEN IF idx < NQ - 1
             THEN removeFinalMeasurementsWalk("recursive", st, idx + 1, 0, 0)
             ELSE [st |-> st, ok |-> TRUE]
        ELSE IF x # 0 /\ slotAt(st, idx) = x THEN [st |-> st, ok |-> TRUE]
        ELSE
        LET st1 == removeFinalMeasurementsWalk("walk", st, idx, x, 0).st IN
        IF ~st1.crashed /\ atRend(st1, idx) /\ idx < NQ - 1
        THEN removeFinalMeasurementsWalk("recursive", st1, idx + 1, 0, 0)
        ELSE [st |-> st1, ok |-> TRUE]

removeFinalMeasurement(st, idx, ref) ==
    removeFinalMeasurementsWalk("measurement", st, idx, ref, 0)

removeFinalMeasurementsRecursive(st, idx, until) ==
    removeFinalMeasurementsWalk("recursive", st, idx, until, 0).st

\* the circuit with the removed operations retyped to I
finalMeasurementsMarked(o, pastEnd) ==
    LET dag == constructDAG(o) IN
    removeFinalMeasurementsRecursive(
        [ops |-> o, dag |-> dag, cur |-> [q \in Qubits |-> Len(dag[q])],
         pastEnd |-> pastEnd, ub |-> FALSE, crashed |-> FALSE], 0, 0)

removeFinalMeasurements(o, pastEnd) ==
    LET st == finalMeasurementsMarked(o, pastEnd) IN
    [ops |-> IF st.crashed THEN st.ops ELSE removeIdentities(st.ops),
     ub |-> st.ub, marked |-> st.ops]

(***************************************************************************)
(* Inputs of removeFinalMeasurements: every circuit of at most MaxFMLen    *)
(* operations of FMGates.                                                  *)
(***************************************************************************)
FMGates ==
    {MeasureOp(0, 0), MeasureOp(1, 1),
     NonUnitaryOperation("Measure", <<0, 1>>, <<0, 1>>),
     BarrierOp(0), NonUnitaryOperation("Barrier", <<1, 2>>, <<>>),
     Gate("H", 0), Gate("X", 1),
     CompoundOperation(<<Gate("X", 0), MeasureOp(0, 0)>>),
     CompoundOperation(<<MeasureOp(1, 1), MeasureOp(0, 0)>>)}

FMCircuits == SeqsUpTo(FMGates, MaxFMLen)

InitFM ==
    /\ ops \in FMCircuits
    /\ input = ops
    /\ pass = "none"
    /\ ret = FALSE
    /\ ub = FALSE
    /\ local = NoLocal
    /\ layout = identityLayout
    /\ runs = 0

RemoveFinalMeasurements ==
    /\ pass = "none"
    /\ \E pastEnd \in PastEndOutcomes :
          LET r == removeFinalMeasurements(ops, pastEnd) IN
          /\ ops' = r.ops
          /\ ub' = r.ub
          /\ local' = [phase |-> "returned", marked |-> r.marked]
    /\ input' = ops
    /\ pass' = "removeFinalMeasurements"
    /\ runs' = runs + 1
    /\ UNCHANGED <<ret, layout>>

NextFM == RemoveFinalMeasurements

SpecFM == InitFM /\ [][NextFM]_vars

finalMeasurementsRemoved == pass = "removeFinalMeasurements"

\* nothing but removed Measures and Barriers follows r on the lane of q
onlyRemovedMeasurementsFollow(r, q) ==
    \A x \in laneAfter(input, r, q) :
        retyped(x) /\ refAt(input, x).type \in {"Measure", "Barrier"}

\* C23: removeFinalMeasurements retypes to identity (and so deletes) only
\* Measures and Barriers, at top level and inside a Compound, and only those
\* that on each of their target qubits are followed by nothing but removed
\* Measures and Barriers; every other operation is left as it was.
C23_OnlyFinalMeasurementsRemoved ==
    finalMeasurementsRemoved =>
        /\ ops = removeIdentities(local.marked)
        /\ \A r \in leafRefs(input) :
              IF retyped(r)
              THEN /\ refAt(input, r).type \in {"Measure", "Barrier"}
                   /\ \A q \in Range(refAt(input, r).targets) :
                         onlyRemovedMeasurementsFollow(r, q)
              ELSE refAt(local.marked, r) = refAt(input, r)

(***************************************************************************)
(* reorderOperations on two circuits with the same lanes.  local.other is  *)
(* the second circuit: the operations of the first in another order that   *)
(* gives every qubit the same lane.                                        *)
(***************************************************************************)
ShowProbabilities == NonUnitaryOperation("ShowProbabilities", <<>>, <<>>)

ROPGates ==
    {Gate("H", 0), Gate("X", 1), Gate("T", 2), CNOT(0, 1), CNOT(2, 1),
     MeasureOp(1, 1), BarrierOp(2),
     CompoundOperation(<<Gate("X", 0), Gate("H", 2)>>),
     NonUnitaryOperation("Barrier", <<0, 1>>, <<>>), ShowProbabilities}

ROPCircuits == SeqsUpTo(ROPGates, MaxROLen)

Orders(n) == {pi \in [1 .. n -> 1 .. n] : \A i, j \in 1 .. n : pi[i] = pi[j] => i = j}

\* the circuit whose i-th operation is the pi[i]-th operation of o
inOrder(o, pi) == [i \in 1 .. Len(o) |-> o[pi[i]]]

\* the lanes of inOrder(o, pi) hold the operations the lanes of o hold, in
\* the same order
sameLanes(o, pi) ==
    LET dag == constructDAG(o)
        other == constructDAG(inOrder(o, pi))
    IN  \A q \in DOMAIN dag :
            /\ Len(other[q]) = Len(dag[q])
            /\ \A k \in DOMAIN dag[q] : pi[other[q][k]] = dag[q][k]

Interleavings(o) == {inOrder(o, pi) : pi \in {p \in Orders(Len(o)) : sameLanes(o, p)}}

InitROP ==
    /\ ops \in ROPCircuits
    /\ input = ops
    /\ pass = "none"
    /\ ret = FALSE
    /\ ub = FALSE
    /\ runs = 0
    /\ \E other \in Interleavings(ops) : local = [phase |-> "pair", other |-> other]
    /\ layout = identityLayout

\* reorderOperations is run on the circuit and on the second circuit
ReorderBoth ==
    /\ local.phase = "pair"
    /\ LET st == reorderOperations(ops)
           other == reorderOperations(local.other)
       IN  /\ ops' = IF st.crashed THEN ops ELSE st.ops
           /\ ub' = st.crashed
           /\ local' = [phase |-> "pairReordered", otherInput |-> local.other,
                        other |-> IF other.crashed THEN local.other ELSE other.ops,
                        otherCrashed |-> other.crashed]
    /\ pass' = "reorderOperations"
    /\ input' = ops
    /\ runs' = runs + 1
    /\ UNCHANGED <<ret, layout>>

NextROP == ReorderBoth

SpecROP == InitROP /\ [][NextROP]_vars

\* C24: two circuits with the same lanes are reordered by reorderOperations
\* to the same operation sequence (and the call returns on one exactly when
\* it returns on the other).
C24_SameLanesSameOrder ==
    local.phase = "pairReordered" =>
        /\ ub = local.otherCrashed
        /\ ~ub => ops = local.other

\* C24 witness: three operations on three qubits, given in two different
\* orders, come out in the same order.
C24_Witness ==
    /\ local.phase = "pairReordered" /\ ~ub /\ ~local.otherCrashed
    /\ input = <<Gate("H", 0), CNOT(2, 1), Gate("X", 1)>>
    /\ local.otherInput = <<CNOT(2, 1), Gate("X", 1), Gate("H", 0)>>
    /\ ops = local.other
    /\ ops = <<CNOT(2, 1), Gate("X", 1), Gate("H", 0)>>

(***************************************************************************)
(* reorderOperations on the circuits of ROPGates, which hold an operation  *)
(* on no lane and Barriers on one and on two qubits.                       *)
(***************************************************************************)
InitROW ==
    /\ ops \in ROPCircuits
    /\ input = ops
    /\ pass = "none"
    /\ ret = FALSE
    /\ ub = FALSE
    /\ runs = 0
    /\ local = NoLocal
    /\ layout = identityLayout

SpecROW == InitROW /\ [][NextRO]_vars

\* o2 holds every operation of o exactly once, and on every lane the
\* operations are in the order they have in o
permutationKeepingLanes(o, o2) ==
    /\ Len(o2) = Len(o)
    /\ \E pi \in Orders(Len(o)) : o2 = inOrder(o, pi) /\ sameLanes(o, pi)

\* C28: every call of reorderOperations returns, and its output holds every
\* operation of its input exactly once, with the operations of every qubit
\* in the order they had.
C28_OutputIsPermutation ==
    runs >= 1 => (~ub /\ permutationKeepingLanes(input, ops))

(***************************************************************************)
(* The DSU of collectBlocks, one call per step: findBlock, unionBlock and  *)
(* finalizeBlock on any qubit, and the lines of collectBlocks that put the *)
(* operation at opIt into the block of its qubits or leave it in place.    *)
(* The calls are made for the qubits of the circuit's operations; local    *)
(* holds the DSU and opIt.                                                 *)
(***************************************************************************)
DSUGates == {Gate("X", 2), Gate("H", 0), CNOT(0, 1)}

\* the qubits of the operations of the circuit
circuitQubits == UNION {getUsedQubits(input[i]) : i \in DOMAIN input}

DSUCircuits == SeqsUpTo(DSUGates, MaxDSULen)

dsuLocal(st, opIt) ==
    [phase |-> IF st.crashed THEN "crashed" ELSE "dsu", opIt |-> opIt,
     parent |-> st.parent, bitBlocks |-> st.bitBlocks,
     currentBlockInCircuit |-> st.currentBlockInCircuit,
     currentBlockOperations |-> st.currentBlockOperations,
     largest |-> st.largest]

InitDSU ==
    /\ ops \in DSUCircuits
    /\ input = ops
    /\ pass = "none"
    /\ ret = FALSE
    /\ ub = FALSE
    /\ runs = 0
    /\ local = dsuLocal(emptyDSU(ops), 1)
    /\ layout = identityLayout

dsuCalled(st, opIt) ==
    /\ ops' = st.ops
    /\ local' = dsuLocal(st, opIt)
    /\ ub' = st.crashed
    /\ UNCHANGED <<input, pass, ret, runs, layout>>

FindBlock ==
    /\ local.phase = "dsu"
    /\ \E index \in circuitQubits :
          dsuCalled(findBlock(collectState, index).st, local.opIt)

UnionBlock ==
    /\ local.phase = "dsu"
    /\ \E block1, block2 \in circuitQubits :
          dsuCalled(unionBlock(collectState, block1, block2), local.opIt)

FinalizeBlock ==
    /\ local.phase = "dsu"
    /\ \E index \in circuitQubits : \E stale \in StaleOutcomes :
          dsuCalled(finalizeBlock(collectState, index, stale), local.opIt)

\* lines 1963-1988 for the operation at opIt
JoinBlock ==
    /\ local.phase = "dsu"
    /\ local.opIt <= Len(ops)
    /\ LET c == joinBlock([st |-> collectState, opIt |-> local.opIt],
                          getUsedQubits(ops[local.opIt]))
       IN  dsuCalled(c.st, c.opIt)

\* lines 1964-1966: the operation at opIt is left where it is
LeaveOperation ==
    /\ local.phase = "dsu"
    /\ local.opIt <= Len(ops)
    /\ dsuCalled(collectState, local.opIt + 1)

NextDSU == FindBlock \/ UnionBlock \/ FinalizeBlock \/ JoinBlock \/ LeaveOperation

SpecDSU == InitDSU /\ [][NextDSU]_vars

dsuRoots(st) == {q \in DOMAIN st.parent : st.parent[q] = q}

\* the payload of the DSU is under the roots only
payloadUnderRoots(st) ==
    /\ \A q \in DOMAIN st.parent \ dsuRoots(st) :
          /\ st.currentBlockInCircuit[q] = 0
          /\ st.currentBlockOperations[q] = <<>>
          /\ st.bitBlocks[q] = <<>>
    /\ \A r \in dsuRoots(st) :
          /\ Range(st.bitBlocks[r]) =
                {q \in DOMAIN st.parent : findBlock(st, q).block = r}
          /\ Len(st.bitBlocks[r]) = Cardinality(Range(st.bitBlocks[r]))
          /\ st.currentBlockInCircuit[r] # 0 <=> st.currentBlockOperations[r] # <<>>
          /\ st.currentBlockInCircuit[r] \in 0 .. Len(st.ops)
    /\ \A r1, r2 \in dsuRoots(st) :
          (r1 # r2 /\ st.currentBlockInCircuit[r1] # 0)
              => st.currentBlockInCircuit[r1] # st.currentBlockInCircuit[r2]

\* unionBlock(block1, block2) took the DSU from st to st2: the root that is
\* left is the one whose body was not the smaller, its anchor is the one it
\* had, and the anchor slot of the other block holds an identity
largerAnchorKept(st, st2, block1, block2) ==
    LET f1 == findBlock(st, block1)
        f2 == findBlock(f1.st, block2)
        found == f2.st
    IN  f1.block # f2.block =>
            \E kept \in {f1.block, f2.block} : \E other \in {f1.block, f2.block} \ {kept} :
                /\ st2.parent[kept] = kept
                /\ st2.parent[other] = kept
                /\ Len(found.currentBlockOperations[kept]) >=
                       Len(found.currentBlockOperations[other])
                /\ st2.currentBlockInCircuit[kept] = found.currentBlockInCircuit[kept]
                /\ st2.currentBlockOperations[kept] =
                       found.currentBlockOperations[kept]
                           \o found.currentBlockOperations[other]
                /\ found.currentBlockInCircuit[other] # 0 =>
                       st2.ops[found.currentBlockInCircuit[other]] = Gate("I", 0)

dsuStepChecked ==
    /\ local'.phase = "dsu" => payloadUnderRoots(collectState')
    /\ \A block1, block2 \in circuitQubits :
           (local'.phase = "dsu"
            /\ collectState' = unionBlock(collectState, block1, block2))
               => largerAnchorKept(collectState, collectState', block1, block2)

\* C25: after every findBlock, unionBlock and finalizeBlock (and after an
\* operation has joined a block) the payload of the DSU is under the roots
\* only: a qubit that is not a root has no anchor, no body and no members, a
\* root's members are the qubits whose findBlock is that root, a root has an
\* anchor exactly when its body is not empty, and no two roots share an
\* anchor; unionBlock keeps the anchor of the block with the larger body and
\* writes an identity into the anchor slot of the other.
C25_PayloadUnderRootOnly == [][dsuStepChecked]_vars

\* C25 witness: two blocks that both hold an operation were united; the
\* anchor slot of one holds the identity placeholder.
C25_Witness ==
    /\ local.phase = "dsu"
    /\ input = <<Gate("X", 2), Gate("H", 0)>>
    /\ local.opIt = 3
    /\ ops = <<Gate("I", 0), movedFrom>>
    /\ local.parent[2] = 0
    /\ local.currentBlockInCircuit[0] = 2
    /\ local.currentBlockOperations[0] = <<Gate("H", 0), Gate("X", 2)>>
    /\ payloadUnderRoots(collectState)

(***************************************************************************)
(* Claims about the circuit deferMeasurements returns.                     *)
(***************************************************************************)
\* the input holds only unitary operations, Measures of one qubit and
\* ClassicControlledOperations on one bit
plainDynamicInput ==
    \A i \in DOMAIN input :
        \/ isUnitary(input[i])
        \/ /\ isNonUnitaryOperation(input[i]) /\ input[i].type = "Measure"
           /\ Len(input[i].targets) = 1 /\ Len(input[i].classics) = 1
        \/ /\ isClassicControlledOperation(input[i])
           /\ input[i].controlRegister[2] = 1

isMeasure(op) == isNonUnitaryOperation(op) /\ op.type = "Measure"

\* C26: when deferMeasurements has returned on a circuit of unitary
\* operations, one-qubit Measures and one-bit ClassicControlledOperations, no
\* unitary operation and no ClassicControlledOperation comes after a Measure,
\* and every qubit whose Measure was moved is measured by exactly one of the
\* Measures that close the circuit, into its original bit.
C26_MeasurementsDeferred ==
    (pass = "deferMeasurements" /\ plainDynamicInput) =>
        /\ \A i, j \in DOMAIN ops :
              (i < j /\ isMeasure(ops[i])) =>
                  ~(isUnitary(ops[j]) \/ isClassicControlledOperation(ops[j]))
        /\ \A p \in local.qubitsToAddMeasurements :
              /\ Cardinality({k \in trailingMeasures(ops) :
                     ops[k].targets = <<p[1]>>}) = 1
              /\ \E k \in trailingMeasures(ops) : ops[k] = MeasureOp(p[1], p[2])

(***************************************************************************)
(* deferMeasurements on circuits long enough to hold, between a Measure    *)
(* and the ClassicControlledOperation keyed on its bit, operations on the  *)
(* measured qubit and on another qubit in either order.                    *)
(***************************************************************************)
DWGates ==
    {Gate("H", 0), Gate("X", 1), MeasureOp(0, 0), MeasureOp(1, 1),
     ClassicControlledOperation(Gate("X", 1), <<0, 1>>, 1),
     ClassicControlledOperation(Gate("X", 0), <<1, 1>>, 0)}

DWCircuits == SeqsUpTo(DWGates, MaxDWLen)

InitDMW ==
    /\ ops \in DWCircuits
    /\ input = ops
    /\ pass = "none"
    /\ ret = FALSE
    /\ ub = FALSE
    /\ runs = 0
    /\ local = deferStart
    /\ layout = identityLayout

SpecDMW == InitDMW /\ [][NextDM]_vars

\* this step of the scan replaces the ClassicControlledOperation at opIt
replacesClassicControl ==
    /\ local.phase = "scan"
    /\ local.opIt <= Len(ops)
    /\ isClassicControlledOperation(ops[local.opIt])
    /\ ~multiBitRaises(ops[local.opIt])
    /\ ops[local.opIt].controlRegister[1] = local.classics[1]
    /\ local'.phase = "scan"

\* the operations the scan has met that acted on the measured qubit after
\* the Measure in the original circuit (the replacements the scan has put in
\* itself are not among them)
actedAfterMeasure ==
    {k \in local.it .. (local.opIt - 1) :
        /\ actsOn(ops[k], local.targets[1])
        /\ \A c \in Range(input) :
              isClassicControlledOperation(c) =>
                  ops[k] # quantumControlled(c, local.targets[1])}

\* C27: the operation deferMeasurements puts in place of a
\* ClassicControlledOperation keyed on the bit of the removed Measure of q
\* is inserted after every operation that preceded the Measure and before
\* every operation that acted on q after the Measure.
C27_InsertedWhereMeasured ==
    [][replacesClassicControl =>
          /\ local'.currentInsertionPoint - 1 >= local.it
          /\ ops'[local'.currentInsertionPoint - 1] =
                 quantumControlled(ops[local.opIt], local.targets[1])
          /\ \A k \in actedAfterMeasure : local'.currentInsertionPoint - 1 <= k]_vars

\* the Measure whose scan is running, as it stood in the circuit
scannedMeasure == NonUnitaryOperation("Measure", local.targets, local.classics)

\* C30: when deferMeasurements raises, the operation sequence and the output
\* permutation are the ones the call was given; the Measure whose scan raised
\* is at its original position.
C30_RaiseLeavesCircuit ==
    raised =>
        /\ ops = input
        /\ layout = identityLayout
        /\ local.targets # <<>> =>
               (local.it <= Len(ops) /\ ops[local.it] = scannedMeasure)

(***************************************************************************)
(* singleQubitGateFusion on circuits that hold a Measure, a Reset and a    *)
(* Barrier among the gates of a lane.                                      *)
(***************************************************************************)
SQWGates ==
    {Gate("X", 0), Gate("H", 0), Gate("X", 1),
     MeasureOp(0, 0), ResetOp(0), BarrierOp(0)}

SQWCircuits == SeqsUpTo(SQWGates, MaxSQLen)

InitSQW ==
    /\ ops \in SQWCircuits
    /\ input = ops
    /\ pass = "none"
    /\ ret = FALSE
    /\ ub = FALSE
    /\ local = NoLocal
    /\ layout = identityLayout
    /\ runs = 0

SpecSQW == InitSQW /\ [][NextSQ]_vars

\* the operations of o that are not gates: Measures, Resets, Barriers and
\* ClassicControlledOperations
notGates(o) ==
    SelectSeq(o, LAMBDA op : isNonUnitaryOperation(op)
                             \/ isClassicControlledOperation(op))

\* op is an operation on the qubit q alone, g a gate on q that follows it
gateAfter(op, g, q) ==
    /\ isNonUnitaryOperation(op) \/ isClassicControlledOperation(op)
    /\ op.targets = <<q>> /\ op.controls = {}
    /\ isStandardOperation(g) /\ g.targets = <<q>> /\ g.controls = {}

\* C29: singleQubitGateFusion leaves every Measure, Reset, Barrier and
\* ClassicControlledOperation as it is and where it is, puts none of their
\* types into a Compound, and leaves a gate that follows one of them on its
\* lane unchanged and in place.
C29_FusesOnlyWithGates ==
    pass = "singleQubitGateFusion" =>
        /\ notGates(ops) = notGates(input)
        /\ \A i \in DOMAIN ops : \A k \in DOMAIN ops[i].ops :
              isCompoundOperation(ops[i]) =>
                  ops[i].ops[k].type \notin {"Measure", "Reset", "Barrier",
                                             "ClassicControlled"}
        /\ \A q \in Qubits :
              (Len(input) = 2 /\ gateAfter(input[1], input[2], q)) => ops = input

(***************************************************************************)
(* Inputs of removeIdentities: every circuit of at most MaxNodes           *)
(* operations, counting the children of Compounds at every depth.          *)
(***************************************************************************)
RILeaves == {Gate("I", 0), Gate("X", 0)}

RECURSIVE RITrees(_), RIForests(_)
RITrees(n) ==
    (IF n = 1 THEN RILeaves ELSE {})
        \cup {CompoundOperation(f) : f \in RIForests(n - 1)}

RIForests(n) ==
    IF n = 0 THEN {<<>>}
    ELSE UNION {{<<t>> \o f : t \in RITrees(k), f \in RIForests(n - k)} :
                   k \in 1 .. n}

RICircuits == UNION {RIForests(n) : n \in 0 .. MaxNodes}

InitRI ==
    /\ ops \in RICircuits
    /\ input = ops
    /\ pass = "none"
    /\ ret = FALSE
    /\ ub = FALSE
    /\ local = NoLocal
    /\ layout = identityLayout
    /\ runs = 0

RemoveIdentities ==
    /\ runs < MaxRuns
    /\ ops' = removeIdentities(ops)
    /\ input' = ops
    /\ pass' = "removeIdentities"
    /\ runs' = runs + 1
    /\ UNCHANGED <<ret, ub, local, layout>>

NextRI == RemoveIdentities

SpecRI == InitRI /\ [][NextRI]_vars

\* some operation typed I at any nesting level
RECURSIVE hasIdentity(_)
hasIdentity(o) ==
    \E i \in DOMAIN o : o[i].type = "I" \/ hasIdentity(o[i].ops)

\* C1: after removeIdentities returns, no operation of type I exists at any
\* nesting level of the circuit (top level, child of a Compound, child of a
\* Compound that is itself a child of a Compound).
C1_NoIdentityRemains == (pass = "removeIdentities") => ~hasIdentity(ops)

\* C2: removeIdentities is idempotent: a second run directly after a first
\* leaves the operation sequence exactly as the first run produced it.
C2_Idempotent ==
    (pass = "removeIdentities" /\ runs = 2) => ops = input

====
